---- MODULE Spec2Model ----
(***************************************************************************)
(* A model of journey's note engine (src/src/vault.rs, src/src/config.rs,  *)
(* src/src/date_time.rs).  Text is modelled character by character: a      *)
(* string is a sequence of one-character strings, a file is such a string  *)
(* or absent, and every operation of the code on text (lines, trim, join,  *)
(* contains, replace, split) is computed as the Rust standard library      *)
(* computes it.                                                            *)
(***************************************************************************)
EXTENDS Integers, Sequences, FiniteSets, TLC

(***************************************************************************)
(* Option<T>: None is the empty tuple, Some(x) the one-element tuple.      *)
(***************************************************************************)
None == <<>>
Some(x) == <<x>>
IsSome(o) == Len(o) = 1
IsNone(o) == Len(o) = 0
Unwrap(o) == o[1]

(***************************************************************************)
(* Strings (Rust str) as sequences of characters.                          *)
(***************************************************************************)
NL == "\n"
\* char::is_whitespace, restricted to the characters of the model's alphabet
WhiteSpace == {" ", "\t"}

SetMin(S) == CHOOSE x \in S : \A y \in S : x <= y
SetMax(S) == CHOOSE x \in S : \A y \in S : x >= y

\* s[i..] matches p at (1-based) position i
MatchAt(s, i, p) == /\ i + Len(p) - 1 <= Len(s)
                    /\ \A k \in 1..Len(p) : s[i + k - 1] = p[k]

\* str::starts_with
StartsWith(s, p) == MatchAt(s, 1, p)

\* str::ends_with
EndsWith(s, p) == Len(p) <= Len(s) /\ MatchAt(s, Len(s) - Len(p) + 1, p)

\* str::contains
Contains(s, p) == \E i \in 1..(Len(s) - Len(p) + 1) : MatchAt(s, i, p)

\* str::find: the 1-based index of the first match, 0 for Option::None
Find(s, p) ==
    LET hits == {i \in 1..(Len(s) - Len(p) + 1) : MatchAt(s, i, p)}
    IN  IF hits = {} THEN 0 ELSE SetMin(hits)

\* str::trim
Trim(s) ==
    LET keep == {i \in 1..Len(s) : s[i] \notin WhiteSpace}
    IN  IF keep = {} THEN <<>> ELSE SubSeq(s, SetMin(keep), SetMax(keep))

RECURSIVE ReplaceFrom(_, _, _, _)
ReplaceFrom(s, i, from, to) ==
    IF i > Len(s) THEN <<>>
    ELSE IF MatchAt(s, i, from)
         THEN to \o ReplaceFrom(s, i + Len(from), from, to)
         ELSE <<s[i]>> \o ReplaceFrom(s, i + 1, from, to)

RECURSIVE ReplaceEmpty(_, _, _)
\* the empty pattern matches in front of every character and at the end
ReplaceEmpty(s, i, to) ==
    IF i > Len(s) THEN to ELSE to \o <<s[i]>> \o ReplaceEmpty(s, i + 1, to)

\* str::replace: all non-overlapping matches, left to right
\* (the receiver is bound as a value, so it is computed once)
Replace(s, from, to) ==
    CHOOSE r \in { IF Len(from) = 0 THEN ReplaceEmpty(t, 1, to)
                                    ELSE ReplaceFrom(t, 1, from, to) : t \in {s} } : TRUE

RECURSIVE SplitFrom(_, _, _)
SplitFrom(s, i, c) ==
    LET hits == {j \in i..Len(s) : s[j] = c}
    IN  IF hits = {} THEN <<SubSeq(s, i, Len(s))>>
        ELSE <<SubSeq(s, i, SetMin(hits) - 1)>> \o SplitFrom(s, SetMin(hits) + 1, c)

\* str::split(char): always at least one part, empty parts kept
Split(s, c) == SplitFrom(s, 1, c)

\* str::lines: split at "\n"; a final empty line is not a line
Lines(s) ==
    LET parts == Split(s, NL)
    IN  IF parts[Len(parts)] = <<>> THEN SubSeq(parts, 1, Len(parts) - 1) ELSE parts

RECURSIVE Join(_, _)
\* [String]::join
Join(ls, sep) ==
    IF Len(ls) = 0 THEN <<>>
    ELSE IF Len(ls) = 1 THEN ls[1]
    ELSE ls[1] \o sep \o Join(Tail(ls), sep)


(***************************************************************************)
(* Dates and times (chrono NaiveDate / DateTime<Local>) and their formats. *)
(* A date is [y, m, d]; a timestamp is [date, h, mi, s].                   *)
(***************************************************************************)
Digit(n) == <<"0", "1", "2", "3", "4", "5", "6", "7", "8", "9">>[n + 1]
Pad2(n) == <<Digit((n \div 10) % 10), Digit(n % 10)>>
Pad4(n) == <<Digit((n \div 1000) % 10), Digit((n \div 100) % 10)>> \o Pad2(n % 100)

\* DateTimeHandler::format_date: "%Y-%m-%d"
format_date(date) == Pad4(date.y) \o <<"-">> \o Pad2(date.m) \o <<"-">> \o Pad2(date.d)

\* DateTimeHandler::format_datetime: "%H:%M:%S"
format_datetime(ts) == Pad2(ts.h) \o <<":">> \o Pad2(ts.mi) \o <<":">> \o Pad2(ts.s)

(***************************************************************************)
(* VaultConfig (src/src/config.rs).  NoteFormat is "Bullet" or "Table".    *)
(***************************************************************************)
Bullet == "Bullet"
Table == "Table"

\* VaultConfig::get_section_header; category is an Option<&str>
get_section_header(cfg, category) ==
    IF IsSome(category) /\ Unwrap(category) = <<"w", "o", "r", "k">>
        THEN cfg.section_header_work
    ELSE IF IsSome(category) /\ Unwrap(category) = <<"p", "e", "r", "s", "o", "n", "a", "l">>
        THEN cfg.section_header_personal
    ELSE IF IsSome(category) /\ Unwrap(category) = <<"h", "e", "a", "l", "t", "h">>
        THEN cfg.section_header_health
    ELSE IF IsSome(category) /\ Unwrap(category) = <<"m", "e", "e", "t", "i", "n", "g", "s">>
        THEN cfg.section_header_meetings
    ELSE cfg.section_header

\* self.config.list_type.as_ref().unwrap_or(&NoteFormat::Bullet)
note_format_of(cfg) == IF IsSome(cfg.list_type) THEN Unwrap(cfg.list_type) ELSE Bullet

(***************************************************************************)
(* Vault (src/src/vault.rs).                                               *)
(***************************************************************************)
\* Vault::get_table_headers: <<time label, content label>>.  Labels that the
\* source writes with non-ASCII letters are transliterated.
get_table_headers(cfg) ==
    LET locale == cfg.locale IN
    IF IsSome(cfg.table_headers)
        THEN <<Unwrap(cfg.table_headers).time, Unwrap(cfg.table_headers).content>>
    ELSE IF \/ StartsWith(locale, <<"n", "o", "_">>)
            \/ StartsWith(locale, <<"n", "b", "_">>)
            \/ StartsWith(locale, <<"n", "n", "_">>)
        THEN <<(<<"T", "i", "d">>), (<<"I", "n", "n", "h", "o", "l", "d">>)>>
    ELSE IF StartsWith(locale, <<"s", "v", "_">>)
        THEN <<(<<"T", "i", "d">>), (<<"I", "n", "n", "e", "h", "a", "l", "l">>)>>
    ELSE IF StartsWith(locale, <<"d", "a", "_">>)
        THEN <<(<<"T", "i", "d">>), (<<"I", "n", "d", "h", "o", "l", "d">>)>>
    ELSE IF StartsWith(locale, <<"f", "i", "_">>)
        THEN <<(<<"A", "i", "k", "a">>), (<<"S", "i", "s", "a", "l", "t", "o">>)>>
    ELSE IF StartsWith(locale, <<"d", "e", "_">>)
        THEN <<(<<"Z", "e", "i", "t">>), (<<"I", "n", "h", "a", "l", "t">>)>>
    ELSE IF StartsWith(locale, <<"f", "r", "_">>)
        THEN <<(<<"H", "e", "u", "r", "e">>), (<<"C", "o", "n", "t", "e", "n", "u">>)>>
    ELSE IF StartsWith(locale, <<"e", "s", "_">>)
        THEN <<(<<"H", "o", "r", "a">>), (<<"C", "o", "n", "t", "e", "n", "i", "d", "o">>)>>
    ELSE IF StartsWith(locale, <<"i", "t", "_">>)
        THEN <<(<<"O", "r", "a">>), (<<"C", "o", "n", "t", "e", "n", "u", "t", "o">>)>>
    ELSE IF StartsWith(locale, <<"n", "l", "_">>)
        THEN <<(<<"T", "i", "j", "d">>), (<<"I", "n", "h", "o", "u", "d">>)>>
    ELSE IF StartsWith(locale, <<"p", "t", "_">>)
        THEN <<(<<"H", "o", "r", "a">>), (<<"C", "o", "n", "t", "e", "u", "d", "o">>)>>
    ELSE IF StartsWith(locale, <<"r", "u", "_">>)
        THEN <<(<<"V", "r", "e", "m", "y", "a">>),
               (<<"S", "o", "d", "e", "r", "z", "h", "a", "n", "i", "e">>)>>
    ELSE IF StartsWith(locale, <<"j", "a", "_">>)
        THEN <<(<<"J", "i", "k", "a", "n">>), (<<"N", "a", "i", "y", "o">>)>>
    ELSE IF StartsWith(locale, <<"z", "h", "_">>)
        THEN <<(<<"S", "h", "i", "j", "i", "a", "n">>), (<<"N", "a", "i", "y", "o">>)>>
    ELSE <<(<<"T", "i", "m", "e">>), (<<"C", "o", "n", "t", "e", "n", "t">>)>>

\* the table header row "| {} | {} |" and the separator row, as lines
TableHeaderLine(cfg) ==
    <<"|", " ">> \o get_table_headers(cfg)[1] \o <<" ", "|", " ">>
                 \o get_table_headers(cfg)[2] \o <<" ", "|">>
TableSeparatorLine ==
    <<"|", "-", "-", "-", "-", "-", "-", "|",
      "-", "-", "-", "-", "-", "-", "-", "-", "-", "-", "|">>

\* Vault::format_note_entry: the rendered entry, with its final "\n"
format_note_entry(timestamp, content, format) ==
    IF format = Bullet
        THEN <<"-", " ">> \o timestamp \o <<" ">> \o content \o <<NL>>
        ELSE <<"|", " ">> \o timestamp \o <<" ", "|", " ">> \o content \o <<" ", "|", NL>>

\* the line shapes that the code tests again and again
IsBulletShape(line) == StartsWith(Trim(line), <<"-", " ">>)
IsSeparatorShape(line) == StartsWith(Trim(line), <<"|", "-", "-", "-">>)
IsPipeShape(line) == StartsWith(Trim(line), <<"|">>)
HasEnglishLabel(line) ==
    \/ Contains(Trim(line), <<"T", "i", "m", "e">>)
    \/ Contains(Trim(line), <<"C", "o", "n", "t", "e", "n", "t">>)
IsHeadingShape(line) == StartsWith(Trim(line), <<"#">>)
IsBlank(line) == Trim(line) = <<>>

\* a detection that takes a separator row for a table note
detect_note_format_with_separators(content) ==
    LET lines == Lines(content)
        has_bullet_notes == \E i \in 1..Len(lines) : IsBulletShape(lines[i])
        has_table_notes == \E i \in 1..Len(lines) : IsPipeShape(lines[i])
    IN  IF has_bullet_notes /\ ~has_table_notes THEN Some(Bullet)
        ELSE IF has_table_notes /\ ~has_bullet_notes THEN Some(Table)
        ELSE None

\* Vault::detect_note_format: Some(Bullet), Some(Table) or None
detect_note_format(content) ==
    LET lines == Lines(content)
        has_bullet_notes == \E i \in 1..Len(lines) : IsBulletShape(lines[i])
        has_table_notes ==
            \E i \in 1..Len(lines) :
                /\ IsPipeShape(lines[i])
                /\ Contains(Trim(lines[i]), <<"|">>)
                /\ ~IsSeparatorShape(lines[i])
    IN  IF has_bullet_notes /\ ~has_table_notes THEN Some(Bullet)
        ELSE IF has_table_notes /\ ~has_bullet_notes THEN Some(Table)
        ELSE None

\* Vault::parse_bullet_note: Some(<<timestamp, content>>) or None
parse_bullet_note(line) ==
    LET start == Find(line, <<"-", " ">>) IN
    IF start = 0 THEN None
    ELSE LET after_dash == SubSeq(line, start + 2, Len(line))
             space_pos == Find(after_dash, <<" ">>)
         IN  IF space_pos = 0 THEN None
             ELSE Some(<<SubSeq(after_dash, 1, space_pos - 1),
                         Trim(SubSeq(after_dash, space_pos + 1, Len(after_dash)))>>)

\* Vault::parse_table_note: Some(<<timestamp, content>>) or None
parse_table_note(line) ==
    LET parts == Split(line, "|") IN
    IF Len(parts) >= 3 THEN Some(<<Trim(parts[2]), Trim(parts[3])>>) ELSE None

\* one step of the loop of Vault::clean_table_blank_lines; st is
\* [out |-> cleaned_lines, in_table, last_was_table_row]
CleanStep(st, line) ==
    IF IsPipeShape(line) /\ ~IsSeparatorShape(line) /\ ~HasEnglishLabel(line)
        THEN [out |-> Append(st.out, line), in_table |-> TRUE, last_was_table_row |-> TRUE]
    ELSE IF IsPipeShape(line) /\ (HasEnglishLabel(line) \/ IsSeparatorShape(line))
        THEN [out |-> Append(st.out, line), in_table |-> TRUE, last_was_table_row |-> FALSE]
    ELSE IF IsBlank(line)
        THEN [out |-> IF ~st.in_table \/ ~st.last_was_table_row
                         THEN Append(st.out, line) ELSE st.out,
              in_table |-> st.in_table, last_was_table_row |-> FALSE]
    ELSE [out |-> Append(st.out, line), in_table |-> FALSE, last_was_table_row |-> FALSE]

RECURSIVE CleanLoop(_, _, _)
CleanLoop(lines, i, st) ==
    IF i > Len(lines) THEN st ELSE CleanLoop(lines, i + 1, CleanStep(st, lines[i]))

\* Vault::clean_table_blank_lines
clean_table_blank_lines(content) ==
    Join(CleanLoop(Lines(content), 1,
                   [out |-> <<>>, in_table |-> FALSE, last_was_table_row |-> FALSE]).out,
         <<NL>>)

\* one step of the loop of Vault::convert_note_format_if_needed; st is
\* [out |-> converted_lines, first_note_found]
ConvertStep(cfg, target_format, st, line) ==
    LET trimmed == Trim(line) IN
    IF target_format = Table /\ StartsWith(trimmed, <<"-", " ">>)
        THEN LET head == IF ~st.first_note_found
                            THEN <<TableHeaderLine(cfg), TableSeparatorLine>>
                            ELSE <<>>
                 parsed == parse_bullet_note(trimmed)
                 row == IF IsSome(parsed)
                           THEN <<"|", " ">> \o Unwrap(parsed)[1] \o <<" ", "|", " ">>
                                    \o Unwrap(parsed)[2] \o <<" ", "|">>
                           ELSE line
             IN  [out |-> st.out \o head \o <<row>>, first_note_found |-> TRUE]
    ELSE IF target_format = Table /\ trimmed = <<>> /\ st.first_note_found
        THEN st
    ELSE IF /\ target_format = Bullet
            /\ StartsWith(trimmed, <<"|">>)
            /\ ~StartsWith(trimmed, <<"|", "-", "-", "-">>)
            /\ ~Contains(trimmed, <<"T", "i", "m", "e">>)
            /\ ~Contains(trimmed, <<"C", "o", "n", "t", "e", "n", "t">>)
        THEN LET parsed == parse_table_note(trimmed)
                 row == IF IsSome(parsed)
                           THEN <<"-", " ">> \o Unwrap(parsed)[1] \o <<" ">> \o Unwrap(parsed)[2]
                           ELSE line
             IN  [out |-> Append(st.out, row), first_note_found |-> st.first_note_found]
    ELSE IF /\ target_format = Bullet
            /\ StartsWith(trimmed, <<"|">>)
            /\ \/ Contains(trimmed, <<"T", "i", "m", "e">>)
               \/ Contains(trimmed, <<"C", "o", "n", "t", "e", "n", "t">>)
               \/ StartsWith(trimmed, <<"|", "-", "-", "-">>)
        THEN st
    ELSE IF target_format = Bullet /\ trimmed = <<>>
        THEN st
    ELSE [out |-> Append(st.out, line), first_note_found |-> st.first_note_found]

RECURSIVE ConvertLoop(_, _, _, _, _)
ConvertLoop(cfg, target_format, lines, i, st) ==
    IF i > Len(lines) THEN st
    ELSE ConvertLoop(cfg, target_format, lines, i + 1,
                     ConvertStep(cfg, target_format, st, lines[i]))

\* a conversion that also rewrites a text of no definite representation
convert_note_format_unless_same(cfg, content, target_format) ==
    IF detect_note_format(content) = Some(target_format)
        THEN IF target_format = Table THEN clean_table_blank_lines(content) ELSE content
        ELSE Join(ConvertLoop(cfg, target_format, Lines(content), 1,
                              [out |-> <<>>, first_note_found |-> FALSE]).out,
                  <<NL>>)

\* Vault::convert_note_format_if_needed (it never returns Err)
convert_note_format_if_needed(cfg, content, target_format) ==
    LET current_format == detect_note_format(content) IN
    IF IsNone(current_format) \/ current_format = Some(target_format)
        THEN IF target_format = Table THEN clean_table_blank_lines(content) ELSE content
        ELSE Join(ConvertLoop(cfg, target_format, Lines(content), 1,
                              [out |-> <<>>, first_note_found |-> FALSE]).out,
                  <<NL>>)

\* Vault::find_section: the 1-based index of the first heading line that
\* contains section_name, 0 for Option::None
find_section(content, section_name) ==
    LET lines == Lines(content)
        hits == {i \in 1..Len(lines) :
                    IsHeadingShape(lines[i]) /\ Contains(lines[i], section_name)}
    IN  IF hits = {} THEN 0 ELSE SetMin(hits)

\* a section that runs to the end of the file whatever heading follows
find_section_end_at_eof(lines, section_start) == Len(lines) + 1

\* Vault::find_section_end: the 1-based index of the next heading line after
\* section_start, Len(lines) + 1 when there is none
find_section_end(lines, section_start) ==
    LET hits == {i \in (section_start + 1)..Len(lines) : IsHeadingShape(lines[i])}
    IN  IF hits = {} THEN Len(lines) + 1 ELSE SetMin(hits)

\* a content-end that keeps the blank lines at the end of the section in front
\* of the inserted line
find_section_content_end_after_blanks(lines, section_start) ==
    find_section_end(lines, section_start)

\* Vault::find_section_content_end: the 1-based index at which an inserted
\* line comes to stand
find_section_content_end(lines, section_start) ==
    LET section_end == find_section_end(lines, section_start)
        filled == {i \in (section_start + 1)..(section_end - 1) : ~IsBlank(lines[i])}
    IN  IF filled = {} THEN section_start + 1 ELSE SetMax(filled) + 1

\* Vec::insert at a 1-based index
InsertAt(lines, idx, x) ==
    SubSeq(lines, 1, idx - 1) \o <<x>> \o SubSeq(lines, idx, Len(lines))

\* the filter of one line in Vault::list_notes
IsListedNote(cfg, line) ==
    LET trimmed == Trim(line) IN
    IF StartsWith(trimmed, <<"-", " ">>) THEN TRUE
    ELSE /\ StartsWith(trimmed, <<"|">>)
         /\ ~StartsWith(trimmed, <<"|", "-", "-", "-">>)
         /\ Contains(trimmed, <<"|">>)
         /\ ~Contains(trimmed, get_table_headers(cfg)[1])
         /\ ~Contains(trimmed, get_table_headers(cfg)[2])
         /\ ~Contains(trimmed, <<"N", "o", "t", "e">>)

\* Vec::push of the lines that pass a filter, in order
SelectLines(lines, Keep(_)) == SelectSeq(lines, Keep)

\* Vault::list_notes on the note file of the date (an Option<String>); it
\* returns Ok(notes) on every path that does not fail in the file system
list_notes(cfg, file, category) ==
    IF IsNone(file) THEN <<>>
    ELSE LET content == Unwrap(file)
             lines == Lines(content)
             section == get_section_header(cfg, category)
             Keep(line) == IsListedNote(cfg, line)
         IN  IF IsSome(section)
                 THEN LET section_start == find_section(content, Unwrap(section)) IN
                      IF section_start # 0
                          THEN SelectLines(
                                   SubSeq(lines, section_start,
                                          find_section_end(lines, section_start) - 1),
                                   Keep)
                          ELSE <<>>
                 ELSE SelectLines(lines, Keep)

(***************************************************************************)
(* Calendar arithmetic of chrono: date +/- Duration::days(1) and the       *)
(* weekday of a date (proleptic Gregorian calendar).                       *)
(***************************************************************************)
IsLeapYear(y) == (y % 4 = 0 /\ y % 100 # 0) \/ y % 400 = 0

DaysInMonth(y, m) ==
    IF m = 2 THEN (IF IsLeapYear(y) THEN 29 ELSE 28)
    ELSE IF m \in {4, 6, 9, 11} THEN 30 ELSE 31

\* date - chrono::Duration::days(1)
PrevDay(date) ==
    IF date.d > 1 THEN [date EXCEPT !.d = date.d - 1]
    ELSE IF date.m > 1
        THEN [y |-> date.y, m |-> date.m - 1, d |-> DaysInMonth(date.y, date.m - 1)]
        ELSE [y |-> date.y - 1, m |-> 12, d |-> 31]

\* date + chrono::Duration::days(1)
NextDay(date) ==
    IF date.d < DaysInMonth(date.y, date.m) THEN [date EXCEPT !.d = date.d + 1]
    ELSE IF date.m < 12
        THEN [y |-> date.y, m |-> date.m + 1, d |-> 1]
        ELSE [y |-> date.y + 1, m |-> 1, d |-> 1]

\* days since 1970-01-01
DaysFromCivil(date) ==
    LET y == IF date.m <= 2 THEN date.y - 1 ELSE date.y
        era == y \div 400
        yoe == y - era * 400
        mp == IF date.m > 2 THEN date.m - 3 ELSE date.m + 9
        doy == (153 * mp + 2) \div 5 + date.d - 1
        doe == yoe * 365 + yoe \div 4 - yoe \div 100 + doy
    IN  era * 146097 + doe - 719468

\* Datelike::weekday, 1 = Monday .. 7 = Sunday
WeekdayOf(date) == ((DaysFromCivil(date) + 3) % 7) + 1

\* date.format("%A")
WeekdayFull(date) ==
    << <<"M", "o", "n", "d", "a", "y">>,
       <<"T", "u", "e", "s", "d", "a", "y">>,
       <<"W", "e", "d", "n", "e", "s", "d", "a", "y">>,
       <<"T", "h", "u", "r", "s", "d", "a", "y">>,
       <<"F", "r", "i", "d", "a", "y">>,
       <<"S", "a", "t", "u", "r", "d", "a", "y">>,
       <<"S", "u", "n", "d", "a", "y">> >>[WeekdayOf(date)]

\* date.format("%a")
WeekdayAbbrev(date) == SubSeq(WeekdayFull(date), 1, 3)

\* DateTimeHandler::format_time (called by the template engine)
format_time(ts) == Pad2(ts.h) \o <<":">> \o Pad2(ts.mi) \o <<":">> \o Pad2(ts.s)

\* "{" name "}" and "{{" name "}}"
Bare(name) == <<"{">> \o name \o <<"}">>
Doubled(name) == <<"{", "{">> \o name \o <<"}", "}">>

T_date == <<"d", "a", "t", "e">>
T_time == <<"t", "i", "m", "e">>
T_datetime == <<"d", "a", "t", "e", "t", "i", "m", "e">>
T_yesterday == <<"y", "e", "s", "t", "e", "r", "d", "a", "y">>
T_tomorrow == <<"t", "o", "m", "o", "r", "r", "o", "w">>
T_weekday == <<"w", "e", "e", "k", "d", "a", "y">>
T_Weekday == <<"W", "e", "e", "k", "d", "a", "y">>
T_created == <<"c", "r", "e", "a", "t", "e", "d">>
T_today == <<"t", "o", "d", "a", "y">>
T_section_header == <<"s", "e", "c", "t", "i", "o", "n", "_", "h", "e", "a", "d", "e", "r">>
T_note == <<"n", "o", "t", "e">>

\* the sequence of replace calls of Vault::create_file_from_template, as
\* <<pattern, value>> pairs in the order of the code
TemplateReplacements(cfg, timestamp) ==
    LET date == timestamp.date
        yesterday == format_date(PrevDay(date))
        tomorrow == format_date(NextDay(date))
        created == format_date(date) \o <<" ">> \o format_datetime(timestamp)
        today == format_date(date)
    IN  << <<Doubled(T_date), format_date(date)>>,
           <<Doubled(T_time), format_time(timestamp)>>,
           <<Doubled(T_datetime), format_datetime(timestamp)>>,
           <<Bare(T_yesterday), yesterday>>,
           <<Bare(T_tomorrow), tomorrow>>,
           <<Doubled(T_yesterday), yesterday>>,
           <<Doubled(T_tomorrow), tomorrow>>,
           <<Bare(T_weekday), WeekdayFull(date)>>,
           <<Doubled(T_weekday), WeekdayFull(date)>>,
           <<Bare(T_Weekday), WeekdayAbbrev(date)>>,
           <<Doubled(T_Weekday), WeekdayAbbrev(date)>>,
           <<Bare(T_created), created>>,
           <<Doubled(T_created), created>>,
           <<Bare(T_today), today>>,
           <<Doubled(T_today), today>> >>
        \o (IF IsSome(cfg.section_header)
               THEN << <<Doubled(T_section_header), Unwrap(cfg.section_header)>>,
                       <<Bare(T_section_header), Unwrap(cfg.section_header)>> >>
               ELSE <<>>)

RECURSIVE ReplaceAll(_, _, _)
\* processed_content = processed_content.replace(..) for each pair in turn
ReplaceAll(s, reps, i) ==
    IF i > Len(reps) THEN s
    ELSE CHOOSE r \in { ReplaceAll(t, reps, i + 1) :
                          t \in {Replace(s, reps[i][1], reps[i][2])} } : TRUE

\* the template text after the token substitutions and before the note is placed
SubstituteTemplate(cfg, template_content, timestamp) ==
    ReplaceAll(template_content, TemplateReplacements(cfg, timestamp), 1)

\* the last step of Vault::create_file_from_template: place the note
PlaceNote(processed_content, note_entry) ==
    IF ~Contains(processed_content, Doubled(T_note)) /\ ~Contains(processed_content, Bare(T_note))
        THEN processed_content \o note_entry
        ELSE Replace(Replace(processed_content, Doubled(T_note), note_entry),
                     Bare(T_note), note_entry)

\* the text of the OS error that fs::read_to_string reports
OsErrorText == <<"o", "s", " ", "e", "r", "r", "o", "r">>

\* the JourneyError::Io that create_file_from_template builds when the template
\* file cannot be read: "Failed to read template file '<path>': <os error>"
TemplateReadError(template_file) ==
    [kind |-> "Io",
     message |-> <<"F", "a", "i", "l", "e", "d", " ", "t", "o", " ", "r", "e", "a", "d", " ", "t", "e", "m", "p", "l", "a", "t", "e", " ", "f", "i", "l", "e", " ", "'">>
                     \o template_file \o <<"'", ":", " ">> \o OsErrorText]

\* a creation that falls back to the bare entry when the template is unreadable
create_file_from_template_or_entry(cfg, template, timestamp, note_entry) ==
    IF IsNone(template) THEN Some(note_entry)
    ELSE Some(PlaceNote(SubstituteTemplate(cfg, Unwrap(template), timestamp), note_entry))

\* Vault::create_file_from_template; template is the template file's text,
\* None when fs::read_to_string fails.  The result is Some(text) for Ok(text)
\* and None for Err(Io).
create_file_from_template(cfg, template, timestamp, note_entry) ==
    IF IsNone(template) THEN None
    ELSE Some(PlaceNote(SubstituteTemplate(cfg, Unwrap(template), timestamp), note_entry))

\* a default document whose table has no separator row
create_default_file_content_no_separator(cfg, date, note_entry, category) ==
    LET section == get_section_header(cfg, category) IN
    <<"-", "-", "-", NL>>
    \o <<"d", "a", "t", "e", ":", " ">> \o format_date(date) \o <<NL>>
    \o <<"-", "-", "-", NL, NL>>
    \o (IF IsSome(section) THEN <<"#", " ">> \o Unwrap(section) \o <<NL, NL>> ELSE <<>>)
    \o (IF note_format_of(cfg) = Table THEN TableHeaderLine(cfg) \o <<NL>> ELSE <<>>)
    \o note_entry

\* Vault::create_default_file_content
create_default_file_content(cfg, date, note_entry, category) ==
    LET section == get_section_header(cfg, category) IN
    <<"-", "-", "-", NL>>
    \o <<"d", "a", "t", "e", ":", " ">> \o format_date(date) \o <<NL>>
    \o <<"-", "-", "-", NL, NL>>
    \o (IF IsSome(section) THEN <<"#", " ">> \o Unwrap(section) \o <<NL, NL>> ELSE <<>>)
    \o (IF note_format_of(cfg) = Table
           THEN TableHeaderLine(cfg) \o <<NL>> \o TableSeparatorLine \o <<NL>>
           ELSE <<>>)
    \o note_entry

RECURSIVE to_string(_)
\* u32::to_string / i32::to_string of a number that is not negative
to_string(n) == IF n < 10 THEN <<Digit(n)>> ELSE to_string(n \div 10) \o <<Digit(n % 10)>>

UpperCase == <<"A", "B", "C", "D", "E", "F", "G", "H", "I", "J", "K", "L", "M", "N", "O", "P", "Q", "R", "S", "T", "U", "V", "W", "X", "Y", "Z">>
LowerCase == <<"a", "b", "c", "d", "e", "f", "g", "h", "i", "j", "k", "l", "m", "n", "o", "p", "q", "r", "s", "t", "u", "v", "w", "x", "y", "z">>

\* str::to_lowercase on ASCII text
to_lowercase(str) ==
    [i \in 1..Len(str) |->
        IF \E k \in 1..26 : UpperCase[k] = str[i]
            THEN LowerCase[CHOOSE k \in 1..26 : UpperCase[k] = str[i]]
            ELSE str[i]]

\* a weekday name that is never shortened
format_weekday_full_only(weekday, short) ==
    << <<"M", "o", "n", "d", "a", "y">>,
       <<"T", "u", "e", "s", "d", "a", "y">>,
       <<"W", "e", "d", "n", "e", "s", "d", "a", "y">>,
       <<"T", "h", "u", "r", "s", "d", "a", "y">>,
       <<"F", "r", "i", "d", "a", "y">>,
       <<"S", "a", "t", "u", "r", "d", "a", "y">>,
       <<"S", "u", "n", "d", "a", "y">> >>[weekday]

\* Vault::format_weekday; weekday is 1 = Mon .. 7 = Sun
format_weekday(weekday, short) ==
    LET full == << <<"M", "o", "n", "d", "a", "y">>,
                   <<"T", "u", "e", "s", "d", "a", "y">>,
                   <<"W", "e", "d", "n", "e", "s", "d", "a", "y">>,
                   <<"T", "h", "u", "r", "s", "d", "a", "y">>,
                   <<"F", "r", "i", "d", "a", "y">>,
                   <<"S", "a", "t", "u", "r", "d", "a", "y">>,
                   <<"S", "u", "n", "d", "a", "y">> >>[weekday]
    IN  IF short THEN SubSeq(full, 1, 3) ELSE full

\* Vault::format_month
format_month(month, short) ==
    IF month \notin 1..12 THEN <<"U", "n", "k", "n", "o", "w", "n">>
    ELSE LET full == << <<"J", "a", "n", "u", "a", "r", "y">>,
                        <<"F", "e", "b", "r", "u", "a", "r", "y">>,
                        <<"M", "a", "r", "c", "h">>,
                        <<"A", "p", "r", "i", "l">>,
                        <<"M", "a", "y">>,
                        <<"J", "u", "n", "e">>,
                        <<"J", "u", "l", "y">>,
                        <<"A", "u", "g", "u", "s", "t">>,
                        <<"S", "e", "p", "t", "e", "m", "b", "e", "r">>,
                        <<"O", "c", "t", "o", "b", "e", "r">>,
                        <<"N", "o", "v", "e", "m", "b", "e", "r">>,
                        <<"D", "e", "c", "e", "m", "b", "e", "r">> >>[month]
         IN  IF short THEN SubSeq(full, 1, 3) ELSE full

\* the replace calls of Vault::format_custom_path, in the order of the code
PathReplacements(date) ==
    LET weekday == WeekdayOf(date) IN
    << <<<<"{", "y", "e", "a", "r", "}">>, to_string(date.y)>>,
       <<<<"{", "m", "o", "n", "t", "h", ":", "0", "2", "}">>, Pad2(date.m)>>,
       <<<<"{", "m", "o", "n", "t", "h", "}">>, to_string(date.m)>>,
       <<<<"{", "{", "d", "a", "t", "e", ":", "M", "M", "}", "}">>, Pad2(date.m)>>,
       <<<<"{", "d", "a", "t", "e", ":", "M", "M", "}">>, Pad2(date.m)>>,
       <<<<"{", "{", "d", "a", "t", "e", ":", "y", "}", "}">>, Pad2(date.y % 100)>>,
       <<<<"{", "d", "a", "t", "e", ":", "y", "}">>, Pad2(date.y % 100)>>,
       <<<<"{", "d", "a", "y", ":", "0", "2", "}">>, Pad2(date.d)>>,
       <<<<"{", "d", "a", "t", "e", ":", "0", "2", "}">>, Pad2(date.d)>>,
       <<<<"{", "d", "a", "y", "}">>, to_string(date.d)>>,
       <<<<"{", "d", "a", "t", "e", "}">>, to_string(date.d)>>,
       <<<<"{", "W", "e", "e", "k", "d", "a", "y", "}">>, format_weekday(weekday, FALSE)>>,
       <<<<"{", "w", "e", "e", "k", "d", "a", "y", "}">>, to_lowercase(format_weekday(weekday, FALSE))>>,
       <<<<"{", "W", "e", "e", "k", "d", "a", "y", "_", "s", "h", "o", "r", "t", "}">>, format_weekday(weekday, TRUE)>>,
       <<<<"{", "w", "e", "e", "k", "d", "a", "y", "_", "s", "h", "o", "r", "t", "}">>, to_lowercase(format_weekday(weekday, TRUE))>>,
       <<<<"{", "M", "o", "n", "t", "h", "}">>, format_month(date.m, FALSE)>>,
       <<<<"{", "m", "o", "n", "t", "h", "_", "n", "a", "m", "e", "}">>, to_lowercase(format_month(date.m, FALSE))>>,
       <<<<"{", "M", "o", "n", "t", "h", "_", "s", "h", "o", "r", "t", "}">>, format_month(date.m, TRUE)>>,
       <<<<"{", "m", "o", "n", "t", "h", "_", "s", "h", "o", "r", "t", "}">>, to_lowercase(format_month(date.m, TRUE))>> >>

\* Vault::format_custom_path
format_custom_path(format, date) == ReplaceAll(format, PathReplacements(date), 1)

\* PathBuf::join: an absolute path replaces the base
PathJoin(base, path) ==
    IF StartsWith(path, <<"/">>) THEN path
    ELSE IF EndsWith(base, <<"/">>) \/ Len(base) = 0 THEN base \o path
    ELSE base \o <<"/">> \o path

\* Vault::get_note_path
get_note_path(cfg, date) ==
    IF IsSome(cfg.file_path_format)
        THEN PathJoin(cfg.path, format_custom_path(Unwrap(cfg.file_path_format), date))
        ELSE PathJoin(cfg.path, format_date(date) \o <<".", "m", "d">>)

(***************************************************************************)
(* chrono's NaiveDate::parse_from_str and NaiveTime::parse_from_str for the *)
(* format items that the handler uses: %Y %m %d %B %b %H %M %S %I %p,       *)
(* white space and literal characters.  Input with a sign in front of a     *)
(* number is outside the model.                                             *)
(***************************************************************************)
IsDigit(c) == c \in {"0", "1", "2", "3", "4", "5", "6", "7", "8", "9"}
DigitVal(c) == CHOOSE n \in 0..9 : Digit(n) = c

\* the position behind the white space that starts at j (str::trim_start)
SkipSpace(str, j) ==
    LET stops == {k \in j..Len(str) : str[k] \notin WhiteSpace}
    IN  IF stops = {} THEN Len(str) + 1 ELSE SetMin(stops)

\* the number of digits that a numeric item of the given width takes at j
DigitRun(str, j, width) ==
    LET stops == {k \in j..(j + width - 1) : k > Len(str) \/ ~IsDigit(str[k])}
    IN  IF stops = {} THEN width ELSE SetMin(stops) - j

RECURSIVE NumberOf(_, _, _)
\* the value of the n digits in front of position j + n
NumberOf(str, j, n) ==
    IF n = 0 THEN 0 ELSE NumberOf(str, j, n - 1) * 10 + DigitVal(str[j + n - 1])

MonthNames ==
    << <<"J", "a", "n", "u", "a", "r", "y">>,
       <<"F", "e", "b", "r", "u", "a", "r", "y">>,
       <<"M", "a", "r", "c", "h">>,
       <<"A", "p", "r", "i", "l">>,
       <<"M", "a", "y">>,
       <<"J", "u", "n", "e">>,
       <<"J", "u", "l", "y">>,
       <<"A", "u", "g", "u", "s", "t">>,
       <<"S", "e", "p", "t", "e", "m", "b", "e", "r">>,
       <<"O", "c", "t", "o", "b", "e", "r">>,
       <<"N", "o", "v", "e", "m", "b", "e", "r">>,
       <<"D", "e", "c", "e", "m", "b", "e", "r">> >>

\* text a read at position j without regard to case
MatchNoCase(str, j, a) ==
    /\ j + Len(a) - 1 <= Len(str)
    /\ to_lowercase(SubSeq(str, j, j + Len(a) - 1)) = to_lowercase(a)

\* the fields that the items have set; -1: not set
NoFields == [y |-> -1, m |-> -1, d |-> -1, h |-> -1, h12 |-> -1, pm |-> -1, mi |-> -1, s |-> -1]

NumericWidth(spec) == IF spec = "Y" THEN 4 ELSE 2

SetField(acc, spec, v) ==
    IF spec = "Y" THEN [acc EXCEPT !.y = v]
    ELSE IF spec = "m" THEN [acc EXCEPT !.m = v]
    ELSE IF spec = "d" THEN [acc EXCEPT !.d = v]
    ELSE IF spec = "H" THEN [acc EXCEPT !.h = v]
    ELSE IF spec = "I" THEN [acc EXCEPT !.h12 = v]
    ELSE IF spec = "M" THEN [acc EXCEPT !.mi = v]
    ELSE [acc EXCEPT !.s = v]

RECURSIVE ParseItems(_, _, _, _, _)
\* format::parse: the items of fmt from position i on read from str at
\* position j; Some(fields) when all items match and no input is left over
ParseItems(str, j, fmt, i, acc) ==
    IF i > Len(fmt) THEN (IF j > Len(str) THEN Some(acc) ELSE None)
    ELSE IF fmt[i] = "%" THEN
        IF i = Len(fmt) THEN None
        ELSE LET spec == fmt[i + 1] IN
             IF spec \in {"Y", "m", "d", "H", "I", "M", "S"} THEN
                 LET k == SkipSpace(str, j)
                     n == DigitRun(str, k, NumericWidth(spec))
                 IN  IF n = 0 THEN None
                     ELSE ParseItems(str, k + n, fmt, i + 2,
                                     SetField(acc, spec, NumberOf(str, k, n)))
             ELSE IF spec \in {"B", "b"} THEN
                 LET hits == {mo \in 1..12 : MatchNoCase(str, j, SubSeq(MonthNames[mo], 1, 3))}
                 IN  IF hits = {} THEN None
                     ELSE LET mo == CHOOSE x \in hits : TRUE
                              rest == SubSeq(MonthNames[mo], 4, Len(MonthNames[mo]))
                              long == spec = "B" /\ Len(rest) > 0 /\ MatchNoCase(str, j + 3, rest)
                          IN  ParseItems(str, IF long THEN j + 3 + Len(rest) ELSE j + 3,
                                         fmt, i + 2, [acc EXCEPT !.m = mo])
             ELSE IF spec = "p" THEN
                 IF MatchNoCase(str, j, <<"a", "m">>)
                     THEN ParseItems(str, j + 2, fmt, i + 2, [acc EXCEPT !.pm = 0])
                 ELSE IF MatchNoCase(str, j, <<"p", "m">>)
                     THEN ParseItems(str, j + 2, fmt, i + 2, [acc EXCEPT !.pm = 1])
                 ELSE None
             ELSE None
    ELSE IF fmt[i] \in WhiteSpace THEN ParseItems(str, SkipSpace(str, j), fmt, i + 1, acc)
    ELSE IF j <= Len(str) /\ str[j] = fmt[i] THEN ParseItems(str, j + 1, fmt, i + 1, acc)
    ELSE None

\* NaiveDate::parse_from_str: Some([y, m, d]) for Ok, None for Err
NaiveDate_parse_from_str(str, fmt) ==
    LET parsed == ParseItems(str, 1, fmt, 1, NoFields) IN
    IF IsNone(parsed) THEN None
    ELSE LET f == Unwrap(parsed) IN
         IF /\ f.y >= 0 /\ f.m \in 1..12 /\ f.d >= 1
            /\ f.d <= DaysInMonth(f.y, f.m)
             THEN Some([y |-> f.y, m |-> f.m, d |-> f.d])
             ELSE None

\* NaiveTime::parse_from_str: Some([h, mi, s]) for Ok (s = 60: a leap second),
\* None for Err
NaiveTime_parse_from_str(str, fmt) ==
    LET parsed == ParseItems(str, 1, fmt, 1, NoFields) IN
    IF IsNone(parsed) THEN None
    ELSE LET f == Unwrap(parsed)
             hour == IF f.h >= 0 THEN (IF f.h <= 23 THEN f.h ELSE -1)
                     ELSE IF f.h12 \in 1..12 /\ f.pm >= 0 THEN (f.h12 % 12) + 12 * f.pm
                     ELSE -1
             second == IF f.s = -1 THEN 0 ELSE f.s
         IN  IF hour >= 0 /\ f.mi \in 0..59 /\ second \in 0..60
                 THEN Some([h |-> hour, mi |-> f.mi, s |-> second])
                 ELSE None

(***************************************************************************)
(* DateTimeHandler: the parsers.  A result is [ok, value, err]: Ok(value)   *)
(* or Err(err) with err = [kind, message].                                  *)
(***************************************************************************)
Ok(v) == [ok |-> TRUE, value |-> Some(v), err |-> None]
Err(kind, message) == [ok |-> FALSE, value |-> None, err |-> Some([kind |-> kind, message |-> message])]

F_iso == <<"%", "Y", "-", "%", "m", "-", "%", "d">>
F_mdy_slash == <<"%", "m", "/", "%", "d", "/", "%", "Y">>
F_dmy_dot == <<"%", "d", ".", "%", "m", ".", "%", "Y">>
F_dmy_slash == <<"%", "d", "/", "%", "m", "/", "%", "Y">>
F_mdy_dash == <<"%", "m", "-", "%", "d", "-", "%", "Y">>
F_dmy_dash == <<"%", "d", "-", "%", "m", "-", "%", "Y">>

\* the match on the named formats of a date override
DateOverrideFormat(override_format) ==
    IF override_format = <<"Y", "Y", "Y", "Y", "-", "M", "M", "-", "D", "D">> THEN F_iso
    ELSE IF override_format = <<"M", "M", "/", "D", "D", "/", "Y", "Y", "Y", "Y">> THEN F_mdy_slash
    ELSE IF override_format = <<"D", "D", ".", "M", "M", ".", "Y", "Y", "Y", "Y">> THEN F_dmy_dot
    ELSE IF override_format = <<"D", "D", "/", "M", "M", "/", "Y", "Y", "Y", "Y">> THEN F_dmy_slash
    ELSE IF override_format = <<"M", "M", "-", "D", "D", "-", "Y", "Y", "Y", "Y">> THEN F_mdy_dash
    ELSE IF override_format = <<"D", "D", "-", "M", "M", "-", "Y", "Y", "Y", "Y">> THEN F_dmy_dash
    ELSE override_format

IsNorwegian(locale) ==
    \/ StartsWith(locale, <<"n", "o">>)
    \/ StartsWith(locale, <<"n", "b">>)
    \/ StartsWith(locale, <<"n", "n">>)

\* date formats that are those of the English locales under every locale
LocaleDateFormats_english_only(locale) ==
    << F_iso, F_mdy_slash, F_mdy_dash,
       <<"%", "B", " ", "%", "d", ",", " ", "%", "Y">>,
       <<"%", "b", " ", "%", "d", ",", " ", "%", "Y">> >>

\* the ordered date formats of a locale
LocaleDateFormats(locale) ==
    IF StartsWith(locale, <<"e", "n">>)
        THEN << F_iso, F_mdy_slash, F_mdy_dash,
                <<"%", "B", " ", "%", "d", ",", " ", "%", "Y">>,
                <<"%", "b", " ", "%", "d", ",", " ", "%", "Y">> >>
    ELSE IF IsNorwegian(locale)
        THEN << F_iso, F_dmy_dot, F_dmy_slash, F_dmy_dash,
                <<"%", "d", ".", " ", "%", "B", " ", "%", "Y">>,
                <<"%", "d", ".", " ", "%", "b", " ", "%", "Y">> >>
    ELSE << F_iso, F_mdy_slash, F_dmy_slash >>

RECURSIVE FirstDate(_, _, _)
\* for format in &formats { if let Ok(date) = .. { return Ok(date) } }
FirstDate(date_str, formats, i) ==
    IF i > Len(formats) THEN None
    ELSE IF IsSome(NaiveDate_parse_from_str(date_str, formats[i]))
        THEN NaiveDate_parse_from_str(date_str, formats[i])
        ELSE FirstDate(date_str, formats, i + 1)

\* a date parser that goes on to the formats of the locale when the override
\* does not match
parse_date_with_fallback(locale, date_str, format_override) ==
    LET byOverride == IF IsSome(format_override)
                          THEN NaiveDate_parse_from_str(
                                   date_str, DateOverrideFormat(Unwrap(format_override)))
                          ELSE None
        date == IF IsSome(byOverride) THEN byOverride
                ELSE FirstDate(date_str, LocaleDateFormats(locale), 1)
    IN  IF IsSome(date) THEN Ok(Unwrap(date))
        ELSE Err("InvalidDateFormat",
                 <<"C", "o", "u", "l", "d", " ", "n", "o", "t", " ", "p", "a", "r", "s", "e", " ", "d", "a", "t", "e", ":", " ">> \o date_str
                     \o <<" ", "f", "o", "r", " ", "l", "o", "c", "a", "l", "e", ":", " ">> \o locale)

\* DateTimeHandler::parse_date_with_format_override
parse_date_with_format_override(locale, date_str, format_override) ==
    IF IsSome(format_override)
        THEN LET override_format == Unwrap(format_override)
                 date == NaiveDate_parse_from_str(date_str, DateOverrideFormat(override_format))
             IN  IF IsSome(date) THEN Ok(Unwrap(date))
                 ELSE Err("InvalidDateFormat",
                          <<"C", "o", "u", "l", "d", " ", "n", "o", "t", " ", "p", "a", "r", "s", "e", " ", "d", "a", "t", "e", ":", " ">> \o date_str
                              \o <<" ", "w", "i", "t", "h", " ", "f", "o", "r", "m", "a", "t", " ", "o", "v", "e", "r", "r", "i", "d", "e", ":", " ">>
                              \o override_format)
        ELSE LET date == FirstDate(date_str, LocaleDateFormats(locale), 1)
             IN  IF IsSome(date) THEN Ok(Unwrap(date))
                 ELSE Err("InvalidDateFormat",
                          <<"C", "o", "u", "l", "d", " ", "n", "o", "t", " ", "p", "a", "r", "s", "e", " ", "d", "a", "t", "e", ":", " ">> \o date_str
                              \o <<" ", "f", "o", "r", " ", "l", "o", "c", "a", "l", "e", ":", " ">> \o locale)

\* DateTimeHandler::parse_date
parse_date(locale, date_str) == parse_date_with_format_override(locale, date_str, None)

T_12h == <<"1", "2", "h">>
T_24h == <<"2", "4", "h">>

Formats12h ==
    << <<"%", "I", ":", "%", "M", " ", "%", "p">>,
       <<"%", "I", ":", "%", "M", ":", "%", "S", " ", "%", "p">>,
       <<"%", "I", ":", "%", "M", "%", "p">>,
       <<"%", "I", ":", "%", "M", ":", "%", "S", "%", "p">> >>

Formats24h == << <<"%", "H", ":", "%", "M">>, <<"%", "H", ":", "%", "M", ":", "%", "S">> >>

\* the ordered time formats of a locale: the same list in each branch
LocaleTimeFormats(locale) == Formats24h \o Formats12h

RECURSIVE FirstTime(_, _, _)
FirstTime(time_str, formats, i) ==
    IF i > Len(formats) THEN None
    ELSE IF IsSome(NaiveTime_parse_from_str(time_str, formats[i]))
        THEN NaiveTime_parse_from_str(time_str, formats[i])
        ELSE FirstTime(time_str, formats, i + 1)

\* DateTimeHandler::parse_time_with_format_override
parse_time_with_format_override(locale, time_str, format_override) ==
    IF IsSome(format_override)
        THEN LET override_format == Unwrap(format_override) IN
             IF override_format \notin {T_12h, T_24h}
                 THEN Err("InvalidTimeFormat",
                          <<"I", "n", "v", "a", "l", "i", "d", " ", "t", "i", "m", "e", " ", "f", "o", "r", "m", "a", "t", " ", "o", "v", "e", "r", "r", "i", "d", "e", ":", " ">> \o override_format
                              \o <<".", " ", "U", "s", "e", " ", "'", "1", "2", "h", "'", " ", "o", "r", " ", "'", "2", "4", "h", "'">>)
                 ELSE LET formats == IF override_format = T_12h THEN Formats12h ELSE Formats24h
                          time == FirstTime(time_str, formats, 1)
                      IN  IF IsSome(time) THEN Ok(Unwrap(time))
                          ELSE Err("InvalidTimeFormat",
                                   <<"C", "o", "u", "l", "d", " ", "n", "o", "t", " ", "p", "a", "r", "s", "e", " ", "t", "i", "m", "e", ":", " ">> \o time_str
                                       \o <<" ", "w", "i", "t", "h", " ", "f", "o", "r", "m", "a", "t", " ", "o", "v", "e", "r", "r", "i", "d", "e", ":", " ">>
                                       \o override_format)
        ELSE LET time == FirstTime(time_str, LocaleTimeFormats(locale), 1)
             IN  IF IsSome(time) THEN Ok(Unwrap(time))
                 ELSE Err("InvalidTimeFormat",
                          <<"C", "o", "u", "l", "d", " ", "n", "o", "t", " ", "p", "a", "r", "s", "e", " ", "t", "i", "m", "e", ":", " ">> \o time_str
                              \o <<" ", "f", "o", "r", " ", "l", "o", "c", "a", "l", "e", ":", " ">> \o locale)

\* DateTimeHandler::parse_time
parse_time(locale, time_str) == parse_time_with_format_override(locale, time_str, None)

\* NaiveDate from the days since 1970-01-01 (the inverse of DaysFromCivil)
CivilFromDays(days) ==
    LET z == days + 719468
        era == z \div 146097
        doe == z - era * 146097
        yoe == (doe - doe \div 1460 + doe \div 36524 - doe \div 146096) \div 365
        doy == doe - (365 * yoe + yoe \div 4 - yoe \div 100)
        mp == (5 * doy + 2) \div 153
        d == doy - (153 * mp + 2) \div 5 + 1
        m == IF mp < 10 THEN mp + 3 ELSE mp - 9
        y == yoe + era * 400
    IN  [y |-> IF m <= 2 THEN y + 1 ELSE y, m |-> m, d |-> d]

\* a relative date that counts forward
parse_relative_date_forward(now, days_ago) == CivilFromDays(DaysFromCivil(now) + days_ago)

\* DateTimeHandler::parse_relative_date; now is Local::now().date_naive()
parse_relative_date(now, days_ago) == CivilFromDays(DaysFromCivil(now) - days_ago)

(***************************************************************************)
(* Config: the registry of vaults.  A Config is [vaults, default_vault];    *)
(* vaults is the HashMap as the set of its values, one per name.  The       *)
(* methods that take &mut self return [cfg, ok, err].                       *)
(***************************************************************************)
\* Config::new
Config_new == [vaults |-> {}, default_vault |-> None]

\* HashMap::contains_key
contains_key(vaults, vault_name) == \E v \in vaults : v.name = vault_name

VaultNotFound(vault_name) ==
    <<"V", "a", "u", "l", "t", " ", "'">> \o vault_name \o <<"'", " ", "n", "o", "t", " ", "f", "o", "u", "n", "d">>

\* Config::add_vault
add_vault(cfg, vault) ==
    [cfg |-> [cfg EXCEPT !.vaults = {v \in @ : v.name # vault.name} \cup {vault}],
     ok |-> TRUE, err |-> None]

\* Config::set_default_vault
set_default_vault(cfg, vault_name) ==
    IF contains_key(cfg.vaults, vault_name)
        THEN [cfg |-> [cfg EXCEPT !.default_vault = Some(vault_name)], ok |-> TRUE, err |-> None]
        ELSE [cfg |-> cfg, ok |-> FALSE, err |-> Some(VaultNotFound(vault_name))]

\* Config::clear_default_vault
clear_default_vault(cfg) ==
    [cfg |-> [cfg EXCEPT !.default_vault = None], ok |-> TRUE, err |-> None]

\* Config::unset_default_vault
unset_default_vault(cfg) ==
    [cfg |-> [cfg EXCEPT !.default_vault = None], ok |-> TRUE, err |-> None]

\* a removal that leaves the default as it is
remove_vault_keeping_default(cfg, vault_name) ==
    IF contains_key(cfg.vaults, vault_name)
        THEN [cfg |-> [cfg EXCEPT !.vaults = {v \in @ : v.name # vault_name}],
              ok |-> TRUE, err |-> None]
        ELSE [cfg |-> cfg, ok |-> FALSE, err |-> Some(VaultNotFound(vault_name))]

\* Config::remove_vault
remove_vault(cfg, vault_name) ==
    IF contains_key(cfg.vaults, vault_name)
        THEN [cfg |-> [vaults |-> {v \in cfg.vaults : v.name # vault_name},
                       default_vault |-> IF cfg.default_vault = Some(vault_name)
                                             THEN None ELSE cfg.default_vault],
              ok |-> TRUE, err |-> None]
        ELSE [cfg |-> cfg, ok |-> FALSE, err |-> Some(VaultNotFound(vault_name))]

\* TimeZone::from_local_datetime for the zone of the process: the number of
\* instants that a local date and time stands for.  "UTC" has no transitions;
\* in "Europe/Oslo" the clocks skip 02:00-03:00 on 2025-03-30 and repeat
\* 02:00-03:00 on 2025-10-26.
InstantsOf(zone, date, time) ==
    IF zone = "Europe/Oslo" /\ time.h = 2 /\ date = [y |-> 2025, m |-> 3, d |-> 30] THEN 0
    ELSE IF zone = "Europe/Oslo" /\ time.h = 2 /\ date = [y |-> 2025, m |-> 10, d |-> 26] THEN 2
    ELSE 1

\* DateTimeHandler::combine_date_time; now is the DateTime<Local> that
\* Local::now() returns
combine_date_time(zone, now, date, time) ==
    IF InstantsOf(zone, date, time) = 1
        THEN [date |-> date, h |-> time.h, mi |-> time.mi, s |-> time.s]
        ELSE now

RECURSIVE InsertByLen(_, _)
\* the place of entry e in a list sorted by phrase length, longest first, behind
\* the entries of the same length (slice::sort_by is stable)
InsertByLen(sorted, e) ==
    IF Len(sorted) = 0 THEN <<e>>
    ELSE IF Len(sorted[1][1]) >= Len(e[1])
        THEN <<sorted[1]>> \o InsertByLen(Tail(sorted), e)
        ELSE <<e>> \o sorted

\* an expansion that takes the phrases in the iteration order of the map
UnsortedPhrases(phrases) == phrases

RECURSIVE SortPhrases(_)
\* phrases.sort_by(|a, b| b.0.len().cmp(&a.0.len()))
SortPhrases(phrases) ==
    IF Len(phrases) = 0 THEN <<>>
    ELSE InsertByLen(SortPhrases(SubSeq(phrases, 1, Len(phrases) - 1)),
                     phrases[Len(phrases)])

\* Vault::expand_phrases; cfg.phrases lists the map's <<phrase, replacement>>
\* entries in the iteration order of the HashMap
expand_phrases(cfg, content) == ReplaceAll(content, SortPhrases(cfg.phrases), 1)

\* Vault::add_note on the note file of the timestamp's date.  file is the
\* note file before the call (None: it does not exist), template the text of
\* the configured template file (None: unreadable).  The result is
\* [ok, file, err]: Ok(()) with the file as written, or Err(err) with the file
\* as it was.
add_note(cfg, file, template, content, timestamp, category) ==
    LET date == timestamp.date
        expanded_content == expand_phrases(cfg, content)
        formatted_time == format_datetime(timestamp)
        note_format == note_format_of(cfg)
        note_entry == format_note_entry(formatted_time, expanded_content, note_format)
        section == get_section_header(cfg, category)
    IN
    IF IsSome(file)
        THEN LET converted_content ==
                     convert_note_format_if_needed(cfg, Unwrap(file), note_format)
             IN
             IF IsSome(section)
                 THEN LET section_start == find_section(converted_content, Unwrap(section)) IN
                      IF section_start # 0
                          THEN LET lines == Lines(converted_content)
                                   content_end == find_section_content_end(lines, section_start)
                               IN  [ok |-> TRUE, err |-> None,
                                    file |-> Some(Join(InsertAt(lines, content_end, note_entry),
                                                       <<NL>>))]
                          ELSE [ok |-> TRUE, err |-> None,
                                file |-> Some((IF ~EndsWith(converted_content, <<NL>>)
                                                  THEN converted_content \o <<NL>>
                                                  ELSE converted_content)
                                              \o <<NL, "#", " ">> \o Unwrap(section) \o <<NL>>
                                              \o note_entry)]
                 ELSE [ok |-> TRUE, err |-> None, file |-> Some(converted_content \o note_entry)]
        ELSE IF IsSome(cfg.template_file)
            THEN LET made == create_file_from_template(cfg, template, timestamp, note_entry) IN
                 IF IsSome(made)
                     THEN [ok |-> TRUE, err |-> None, file |-> made]
                     ELSE [ok |-> FALSE, file |-> file,
                           err |-> Some(TemplateReadError(Unwrap(cfg.template_file)))]
            ELSE [ok |-> TRUE, err |-> None,
                  file |-> Some(create_default_file_content(cfg, date, note_entry, category))]

(***************************************************************************)
(* The state machine: one vault, the note file of one day, and the calls   *)
(* add_note and list_notes on it.                                          *)
(***************************************************************************)
VARIABLES
    config,        \* the VaultConfig of the Vault (read-only for the engine)
    noteDate,      \* the day whose note file is modelled
    noteFile,      \* Option<String>: the note file of noteDate on disk
    templateFile,  \* Option<String>: the text of the configured template file
    initialFile,   \* noteFile as it was before the first call
    added,         \* the <<content, category>> of every Ok add_note so far, in order
    last,          \* the last call: its kind, arguments, the file before it, its result
    listed,        \* the Vec<String> returned by the last list_notes
    probe          \* the arguments and the result of a function applied on its own

vars == <<config, noteDate, noteFile, templateFile, initialFile, added, last, listed, probe>>

\* bounds of the model
MaxNotes == 2

\* inputs of the calls
Contents == { <<"a">>, <<"b">>, <<"N", "o", "t", "e">> }
Categories == { None, Some(<<"w", "o", "r", "k">>) }
Times == { [h |-> 14, mi |-> 30, s |-> 0] }
Stamp(date, time) == [date |-> date, h |-> time.h, mi |-> time.mi, s |-> time.s]

H_Notes == <<"N">>
H_Work == <<"W">>
Locale_en == <<"e", "n", "_", "U", "S">>

BaseConfig ==
    [locale |-> Locale_en, phrases |-> <<>>,
     section_header |-> None, section_header_work |-> None,
     section_header_personal |-> None, section_header_health |-> None,
     section_header_meetings |-> None, table_headers |-> None,
     template_file |-> None, list_type |-> None,
     path |-> <<"/", "v">>, file_path_format |-> None]

\* the configurations of the main specification
Configs ==
    { [BaseConfig EXCEPT !.list_type = lt, !.section_header = sh, !.section_header_work = sw] :
        lt \in {Some(Bullet), Some(Table)},
        sh \in {None, Some(H_Notes)},
        sw \in {None, Some(H_Work)} }

\* note files that exist before the first call: written by hand, by an editor,
\* or by an earlier run under another configuration
Row(c) == <<"|", " ", "0", "9", ":", "0", "0", ":", "0", "0", " ", "|", " ", c, " ", "|">>
Item(c) == <<"-", " ", "0", "9", ":", "0", "0", ":", "0", "0", " ", c>>
TableHead == <<(<<"|", " ", "T", "i", "m", "e", " ", "|", " ",
                  "C", "o", "n", "t", "e", "n", "t", " ", "|">>), TableSeparatorLine>>
Text(lines) == Join(lines, <<NL>>) \o <<NL>>

ExistingFiles ==
    { <<>>,
      Text(TableHead \o <<Row("x"), <<>>, Row("y")>>),
      Text(TableHead \o <<Row("x"), <<>>, <<>>, Row("y")>>),
      Text(<<(<<"#", " ", "N">>), <<>>, Item("x"), <<>>, (<<"#", " ", "Z">>), <<>>, Item("y")>>),
      Text(<<(<<"#", " ", "N">>), <<>>, <<>>, (<<"#", " ", "Z">>), <<"t">>>>),
      Text(<<Item("x"), Row("y")>>) }

NoProbe == [stage |-> "none"]

NoCall == [op |-> "none", ok |-> TRUE, err |-> None, content |-> <<>>, category |-> None,
           time |-> [h |-> 0, mi |-> 0, s |-> 0], pre |-> None]

Init ==
    /\ config \in Configs
    /\ noteDate = [y |-> 2025, m |-> 10, d |-> 24]
    /\ noteFile \in {None} \cup {Some(f) : f \in ExistingFiles}
    /\ templateFile = None
    /\ initialFile = noteFile
    /\ added = <<>>
    /\ last = NoCall
    /\ listed = <<>>
    /\ probe = NoProbe

\* vault.add_note(content, Some(timestamp), category)
AddNoteOf(contents) ==
    /\ Len(added) < MaxNotes
    /\ \E content \in contents, time \in Times, category \in Categories :
         LET r == add_note(config, noteFile, templateFile, content,
                           Stamp(noteDate, time), category)
         IN  /\ noteFile' = r.file
             /\ added' = IF r.ok THEN Append(added, <<content, category>>) ELSE added
             /\ last' = [op |-> "add", ok |-> r.ok, err |-> r.err, content |-> content,
                         category |-> category, time |-> time, pre |-> noteFile]
             /\ listed' = <<>>
    /\ UNCHANGED <<config, noteDate, templateFile, initialFile, probe>>

AddNote == AddNoteOf(Contents)

\* a listing that brings the file into the configured representation first
ListNotesConverting ==
    /\ \E category \in Categories :
         /\ noteFile' = IF IsSome(noteFile)
                            THEN Some(convert_note_format_if_needed(
                                          config, Unwrap(noteFile), note_format_of(config)))
                            ELSE Some(<<>>)
         /\ listed' = list_notes(config, noteFile', category)
         /\ last' = [op |-> "list", ok |-> TRUE, err |-> None, content |-> <<>>,
                     category |-> category, time |-> [h |-> 0, mi |-> 0, s |-> 0],
                     pre |-> noteFile]
    /\ UNCHANGED <<config, noteDate, templateFile, initialFile, added, probe>>

\* vault.list_notes(date, category)
ListNotes ==
    /\ \E category \in Categories :
         /\ listed' = list_notes(config, noteFile, category)
         /\ last' = [op |-> "list", ok |-> TRUE, err |-> None, content |-> <<>>,
                     category |-> category, time |-> [h |-> 0, mi |-> 0, s |-> 0],
                     pre |-> noteFile]
    /\ UNCHANGED <<config, noteDate, noteFile, templateFile, initialFile, added, probe>>

Next == AddNote \/ ListNotes

Spec == Init /\ [][Next]_vars

(***************************************************************************)
(* VaultConfig::get_section_header applied on its own to every pattern of  *)
(* set and unset headers and every kind of category.                       *)
(***************************************************************************)
HeaderCategories ==
    { None,
      Some(<<"w", "o", "r", "k">>),
      Some(<<"p", "e", "r", "s", "o", "n", "a", "l">>),
      Some(<<"h", "e", "a", "l", "t", "h">>),
      Some(<<"m", "e", "e", "t", "i", "n", "g", "s">>),
      Some(<<"i", "d", "e", "a", "s">>) }

HeaderConfigs ==
    { [BaseConfig EXCEPT !.section_header = sh, !.section_header_work = sw,
                         !.section_header_personal = sp, !.section_header_health = se,
                         !.section_header_meetings = sm] :
        sh \in {None, Some(H_Notes)},
        sw \in {None, Some(H_Work)},
        sp \in {None, Some(<<"P">>)},
        se \in {None, Some(<<"H">>)},
        sm \in {None, Some(<<"M">>)} }

\* the variables of the note file, at rest
NoFileState ==
    /\ noteDate = [y |-> 2025, m |-> 10, d |-> 24]
    /\ noteFile = None
    /\ templateFile = None
    /\ initialFile = None
    /\ added = <<>>
    /\ last = NoCall
    /\ listed = <<>>

InitHeader ==
    /\ config \in HeaderConfigs
    /\ NoFileState
    /\ \E c \in HeaderCategories : probe = [stage |-> "input", category |-> c, result |-> None]

\* config.get_section_header(category)
GetSectionHeader ==
    /\ probe.stage = "input"
    /\ probe' = [probe EXCEPT !.stage = "done",
                              !.result = get_section_header(config, probe.category)]
    /\ UNCHANGED <<config, noteDate, noteFile, templateFile, initialFile, added, last, listed>>

NextHeader == GetSectionHeader

SpecHeader == InitHeader /\ [][NextHeader]_vars

(***************************************************************************)
(* Vault::convert_note_format_if_needed applied on its own: a text of N    *)
(* rendered bullet entries is converted to Table and then back to Bullet.  *)
(***************************************************************************)
MaxEntries == 2

ConvertTimes == { [h |-> 9, mi |-> 0, s |-> 0], [h |-> 14, mi |-> 30, s |-> 0] }
ConvertContents == { <<"a">>, <<"x", " ", "y">>, <<"p", "|", "q">> }

ConvertConfigs ==
    { BaseConfig,
      [BaseConfig EXCEPT !.locale = <<"n", "o", "_", "N", "O">>],
      [BaseConfig EXCEPT !.table_headers =
           Some([time |-> <<"W", "h", "e", "n">>, content |-> <<"W", "h", "a", "t">>])] }

\* the entries of a text: sequences of <<time, content>> of length 0..MaxEntries
EntryLists ==
    UNION { [1..n -> ConvertTimes \X ConvertContents] : n \in 0..MaxEntries }

RECURSIVE RenderBullets(_, _)
\* the text of the entries from the i-th on, each rendered by format_note_entry
RenderBullets(entries, i) ==
    IF i > Len(entries) THEN <<>>
    ELSE format_note_entry(format_datetime(Stamp([y |-> 2025, m |-> 10, d |-> 24],
                                                 entries[i][1])),
                           entries[i][2], Bullet)
         \o RenderBullets(entries, i + 1)

InitConvert ==
    /\ config \in ConvertConfigs
    /\ NoFileState
    /\ \E entries \in EntryLists :
           probe = [stage |-> "bullet", entries |-> entries,
                    text |-> RenderBullets(entries, 1)]

\* convert_note_format_if_needed(text, &NoteFormat::Table)
ConvertToTable ==
    /\ probe.stage = "bullet"
    /\ probe' = [probe EXCEPT !.stage = "table",
                              !.text = convert_note_format_if_needed(config, probe.text, Table)]
    /\ UNCHANGED <<config, noteDate, noteFile, templateFile, initialFile, added, last, listed>>

\* convert_note_format_if_needed(text, &NoteFormat::Bullet)
ConvertToBullet ==
    /\ probe.stage = "table"
    /\ probe' = [probe EXCEPT !.stage = "roundtrip",
                              !.text = convert_note_format_if_needed(config, probe.text, Bullet)]
    /\ UNCHANGED <<config, noteDate, noteFile, templateFile, initialFile, added, last, listed>>

NextConvert == ConvertToTable \/ ConvertToBullet

SpecConvert == InitConvert /\ [][NextConvert]_vars

(***************************************************************************)
(* Vault::expand_phrases applied on its own to a note text under every     *)
(* phrase map of up to MaxPhrases entries, in every iteration order.       *)
(***************************************************************************)
MaxPhrases == 2

P_w == <<"@", "w">>
P_wo == <<"@", "w", "o">>

\* <<phrase, expansion>>: a short phrase, a longer one that contains it, the
\* longer one with an expansion that spells the short one, and a phrase that is
\* the tail of both
PhraseEntries ==
    { <<P_w, <<"W">>>>, <<P_wo, <<"G">>>>, <<P_wo, <<"x">> \o P_w>>, <<<<"w">>, <<"V">>>> }

\* the maps as lists in HashMap iteration order: the keys are distinct
PhraseMaps ==
    { phrases \in UNION { [1..n -> PhraseEntries] : n \in 0..MaxPhrases } :
        \A i, j \in 1..Len(phrases) : i # j => phrases[i][1] # phrases[j][1] }

PhraseConfigs == { [BaseConfig EXCEPT !.phrases = phrases] : phrases \in PhraseMaps }

PhraseContents ==
    { P_wo, <<"d", " ">> \o P_wo \o <<" ", "t">>, P_w \o P_wo, P_wo \o P_w \o <<"w">>,
      <<"n", "o">> }

InitPhrases ==
    /\ config \in PhraseConfigs
    /\ NoFileState
    /\ \E content \in PhraseContents :
           probe = [stage |-> "content", content |-> content, text |-> content]

\* self.expand_phrases(content)
ExpandPhrases ==
    /\ probe.stage = "content"
    /\ probe' = [probe EXCEPT !.stage = "expanded",
                              !.text = expand_phrases(config, probe.content)]
    /\ UNCHANGED <<config, noteDate, noteFile, templateFile, initialFile, added, last, listed>>

NextPhrases == ExpandPhrases

SpecPhrases == InitPhrases /\ [][NextPhrases]_vars

(***************************************************************************)
(* Vault::get_note_path applied on its own to every date and path format.  *)
(***************************************************************************)
PathDates ==
    { [y |-> 2025, m |-> 3, d |-> 5], [y |-> 2025, m |-> 10, d |-> 24],
      [y |-> 2024, m |-> 2, d |-> 2], [y |-> 2005, m |-> 12, d |-> 31] }

\* the documented tokens, as the code spells them
PathTokens == { PathReplacements([y |-> 2025, m |-> 3, d |-> 5])[i][1] : i \in 1..19 }

\* each documented token between literal text; the formats of the documentation;
\* an unknown token; a token inside the braces of another token's name
PathFormats ==
    { <<"n", "_">> \o tok \o <<".", "m", "d">> : tok \in PathTokens }
    \cup { <<"{", "y", "e", "a", "r", "}", "/", "{", "m", "o", "n", "t", "h", ":", "0", "2", "}", "/", "{", "d", "a", "y", ":", "0", "2", "}">>,
           <<"t", "_", "{", "W", "e", "e", "k", "d", "a", "y", "}", "_", "{", "w", "e", "e", "k", "d", "a", "y", "}", "_", "{", "W", "e", "e", "k", "d", "a", "y", "_", "s", "h", "o", "r", "t", "}", "_", "{", "w", "e", "e", "k", "d", "a", "y", "_", "s", "h", "o", "r", "t", "}", ".", "m", "d">>,
           <<"{", "f", "o", "o", "}", "/", "{", "Y", "e", "a", "r", "}", ".", "m", "d">>,
           <<"{", "d", "a", "y", ":", "{", "m", "o", "n", "t", "h", ":", "0", "2", "}", "}">> }

PathConfigs ==
    { [BaseConfig EXCEPT !.file_path_format = f] :
        f \in {None} \cup {Some(x) : x \in PathFormats} }

InitPath ==
    /\ config \in PathConfigs
    /\ \E date \in PathDates :
         /\ noteDate = date
         /\ probe = [stage |-> "date", date |-> date, path |-> <<>>]
    /\ noteFile = None
    /\ templateFile = None
    /\ initialFile = None
    /\ added = <<>>
    /\ last = NoCall
    /\ listed = <<>>

\* vault.get_note_path(date)
GetNotePath ==
    /\ probe.stage = "date"
    /\ probe' = [probe EXCEPT !.stage = "path", !.path = get_note_path(config, probe.date)]
    /\ UNCHANGED <<config, noteDate, noteFile, templateFile, initialFile, added, last, listed>>

NextPath == GetNotePath

SpecPath == InitPath /\ [][NextPath]_vars

(***************************************************************************)
(* First creation without a template, under every representation, section  *)
(* header, locale and label override.                                      *)
(***************************************************************************)
CreateConfigs ==
    { [BaseConfig EXCEPT !.list_type = lt, !.section_header = sh,
                         !.section_header_work = sw, !.locale = lc, !.table_headers = th] :
        lt \in {None, Some(Bullet), Some(Table)},
        sh \in {None, Some(H_Notes)},
        sw \in {None, Some(H_Work)},
        lc \in {Locale_en, <<"n", "o", "_", "N", "O">>},
        th \in {None, Some([time |-> <<"W", "h", "e", "n">>,
                           content |-> <<"W", "h", "a", "t">>])} }

CreateDates == { [y |-> 2025, m |-> 10, d |-> 24], [y |-> 2024, m |-> 2, d |-> 9] }

InitCreate ==
    /\ config \in CreateConfigs
    /\ noteDate \in CreateDates
    /\ noteFile = None
    /\ templateFile = None
    /\ initialFile = None
    /\ added = <<>>
    /\ last = NoCall
    /\ listed = <<>>
    /\ probe = NoProbe

AddFirstNotes == AddNoteOf({<<"a">>})

NextCreate == AddFirstNotes \/ ListNotes

SpecCreate == InitCreate /\ [][NextCreate]_vars

(***************************************************************************)
(* DateTimeHandler::parse_date.. and parse_time.. applied on their own to   *)
(* every input, locale and override.                                        *)
(***************************************************************************)
DateLocales ==
    { <<"e", "n", "-", "U", "S">>,
      <<"n", "o", "-", "N", "O">>,
      <<"n", "b", "-", "N", "O">>,
      <<"n", "n", "-", "N", "O">>,
      <<"d", "e", "-", "D", "E">> }

DateInputs ==
    { <<"2", "0", "2", "5", "-", "1", "0", "-", "2", "4">>,
      <<"0", "1", "/", "0", "2", "/", "2", "0", "2", "5">>,
      <<"2", "4", ".", "1", "0", ".", "2", "0", "2", "5">>,
      <<"1", "0", "-", "2", "4", "-", "2", "0", "2", "5">>,
      <<"1", "3", "/", "0", "1", "/", "2", "0", "2", "5">>,
      <<"O", "c", "t", " ", "2", "4", ",", " ", "2", "0", "2", "5">>,
      <<"2", "4", ".", " ", "o", "c", "t", "o", "b", "e", "r", " ", "2", "0", "2", "5">>,
      <<"2", "0", "2", "5", "-", "0", "2", "-", "3", "0">>,
      <<"1", "-", "2", "-", "3">>,
      <<"j", "u", "n", "k">> }

DateOverrides ==
    { None,
      Some(<<"Y", "Y", "Y", "Y", "-", "M", "M", "-", "D", "D">>),
      Some(<<"D", "D", "/", "M", "M", "/", "Y", "Y", "Y", "Y">>),
      Some(<<"%", "d", ".", "%", "m", ".", "%", "Y">>) }

TimeInputs ==
    { <<"1", "4", ":", "3", "0">>,
      <<"1", "4", ":", "3", "0", ":", "4", "5">>,
      <<"2", ":", "3", "0", " ", "P", "M">>,
      <<"2", ":", "3", "0", ":", "4", "5", "p", "m">>,
      <<"1", "2", ":", "0", "5", "A", "M">>,
      <<"2", "5", ":", "0", "0">>,
      <<"n", "o", "w">> }

TimeOverrides == { None, Some(T_12h), Some(T_24h), Some(<<"%", "H", ":", "%", "M">>) }

InitParse ==
    /\ config \in { [BaseConfig EXCEPT !.locale = lc] : lc \in DateLocales }
    /\ NoFileState
    /\ \/ \E str \in DateInputs, ov \in DateOverrides :
              probe = [stage |-> "date", input |-> str, override |-> ov, result |-> Err("none", <<>>)]
       \/ \E str \in TimeInputs, ov \in TimeOverrides :
              probe = [stage |-> "time", input |-> str, override |-> ov, result |-> Err("none", <<>>)]

\* handler.parse_date_with_format_override(input, override)
ParseDate ==
    /\ probe.stage = "date"
    /\ probe' = [probe EXCEPT !.stage = "date parsed",
                              !.result = parse_date_with_format_override(
                                             config.locale, probe.input, probe.override)]
    /\ UNCHANGED <<config, noteDate, noteFile, templateFile, initialFile, added, last, listed>>

\* handler.parse_time_with_format_override(input, override)
ParseTime ==
    /\ probe.stage = "time"
    /\ probe' = [probe EXCEPT !.stage = "time parsed",
                              !.result = parse_time_with_format_override(
                                             config.locale, probe.input, probe.override)]
    /\ UNCHANGED <<config, noteDate, noteFile, templateFile, initialFile, added, last, listed>>

NextParse == ParseDate \/ ParseTime

SpecParse == InitParse /\ [][NextParse]_vars

(***************************************************************************)
(* DateTimeHandler::parse_relative_date called twice, with the local date   *)
(* of the clock possibly moving on between the calls.                       *)
(***************************************************************************)
MaxOffset == 3
MaxMidnights == 1

Offsets == (0 - MaxOffset)..MaxOffset

ClockDates ==
    { [y |-> 2025, m |-> 10, d |-> 24], [y |-> 2025, m |-> 1, d |-> 1],
      [y |-> 2024, m |-> 3, d |-> 1], [y |-> 2025, m |-> 12, d |-> 31] }

InitRelative ==
    /\ config = BaseConfig
    /\ NoFileState
    /\ \E today \in ClockDates :
           probe = [stage |-> "clock", today |-> today, midnights |-> 0, calls |-> <<>>]

\* the local date of the clock moves on to the next day
MidnightPasses ==
    /\ probe.midnights < MaxMidnights
    /\ probe' = [probe EXCEPT !.today = NextDay(probe.today), !.midnights = @ + 1]
    /\ UNCHANGED <<config, noteDate, noteFile, templateFile, initialFile, added, last, listed>>

\* handler.parse_relative_date(days_ago)
ParseRelativeDate ==
    /\ Len(probe.calls) < 2
    /\ \E days_ago \in Offsets :
           probe' = [probe EXCEPT
                        !.stage = "called",
                        !.calls = Append(@, [days_ago |-> days_ago, now |-> probe.today,
                                             date |-> parse_relative_date(probe.today, days_ago)])]
    /\ UNCHANGED <<config, noteDate, noteFile, templateFile, initialFile, added, last, listed>>

NextRelative == MidnightPasses \/ ParseRelativeDate

SpecRelative == InitRelative /\ [][NextRelative]_vars

(***************************************************************************)
(* The registry: any sequence of add_vault, set_default_vault,             *)
(* remove_vault, clear_default_vault and unset_default_vault on a Config.   *)
(***************************************************************************)
VaultNames == { <<"a">>, <<"b">>, <<"c">> }
VaultPaths == { <<"/", "p">>, <<"/", "q">> }

InitRegistry ==
    /\ config = BaseConfig
    /\ NoFileState
    /\ probe = [stage |-> "registry", cfg |-> Config_new, op |-> "new", arg |-> <<>>,
                ok |-> TRUE, err |-> None, pre |-> Config_new]

\* the registry after a call, with the call and the Config it found
Called(op, arg, r) ==
    /\ probe' = [stage |-> "registry", cfg |-> r.cfg, op |-> op, arg |-> arg,
                 ok |-> r.ok, err |-> r.err, pre |-> probe.cfg]
    /\ UNCHANGED <<config, noteDate, noteFile, templateFile, initialFile, added, last, listed>>

AddVault ==
    \E n \in VaultNames \ {<<"c">>}, p \in VaultPaths :
        Called("add_vault", n, add_vault(probe.cfg, [name |-> n, path |-> p]))

SetDefaultVault ==
    \E n \in VaultNames : Called("set_default_vault", n, set_default_vault(probe.cfg, n))

RemoveVault ==
    \E n \in VaultNames : Called("remove_vault", n, remove_vault(probe.cfg, n))

ClearDefaultVault == Called("clear_default_vault", <<>>, clear_default_vault(probe.cfg))

UnsetDefaultVault == Called("unset_default_vault", <<>>, unset_default_vault(probe.cfg))

NextRegistry ==
    \/ AddVault
    \/ SetDefaultVault
    \/ RemoveVault
    \/ ClearDefaultVault
    \/ UnsetDefaultVault

SpecRegistry == InitRegistry /\ [][NextRegistry]_vars

(***************************************************************************)
(* Vault::clean_table_blank_lines applied on its own to every text of up   *)
(* to MaxCleanLines lines.                                                  *)
(***************************************************************************)
MaxCleanLines == 4

\* a data row, a blank line, a line of prose, the header row
CleanLines == { Row("x"), <<>>, <<"t">>, TableHead[1] }

CleanTexts ==
    { Text(lines) : lines \in UNION { [1..n -> CleanLines] : n \in 1..MaxCleanLines } }

InitClean ==
    /\ config = BaseConfig
    /\ NoFileState
    /\ \E text \in CleanTexts : probe = [stage |-> "text", input |-> text, text |-> text]

\* self.clean_table_blank_lines(content)
CleanTableBlankLines ==
    /\ probe.stage = "text"
    /\ probe' = [probe EXCEPT !.stage = "cleaned", !.text = clean_table_blank_lines(probe.input)]
    /\ UNCHANGED <<config, noteDate, noteFile, templateFile, initialFile, added, last, listed>>

NextClean == CleanTableBlankLines

SpecClean == InitClean /\ [][NextClean]_vars

(***************************************************************************)
(* First creation from a template: the vault has a template file           *)
(* configured and the note file of the day does not exist yet.             *)
(***************************************************************************)
TokenNames ==
    { T_date, T_time, T_datetime, T_created, T_today, T_yesterday, T_tomorrow,
      T_weekday, T_Weekday, T_section_header }

\* template texts: one token between literal text, in either form; texts with a
\* note placeholder in either form; a text with tokens and a placeholder
Templates ==
    { <<"=">> \o Bare(tok) \o <<NL>> : tok \in TokenNames }
    \cup { <<"=">> \o Doubled(tok) \o <<NL>> : tok \in TokenNames }
    \cup { <<"x">> \o Bare(T_note) \o <<"y", NL>>,
           Doubled(T_note) \o <<NL, "z", NL>>,
           Doubled(T_date) \o <<NL, "#", " ">> \o Doubled(T_section_header) \o <<NL>>
               \o Doubled(T_note) \o <<NL>> \o Bare(T_note),
           <<"z", NL>> }

TemplateDates == { [y |-> 2025, m |-> 10, d |-> 24], [y |-> 2024, m |-> 12, d |-> 31] }

TemplateConfigs ==
    { [BaseConfig EXCEPT !.template_file = Some(<<"t", ".", "m", "d">>),
                         !.section_header = sh] :
        sh \in {None, Some(H_Notes)} }

InitTemplate ==
    /\ config \in TemplateConfigs
    /\ noteDate \in TemplateDates
    /\ \/ /\ noteFile = None
          /\ templateFile \in {None} \cup {Some(x) : x \in Templates}
       \/ /\ noteFile \in {Some(Text(<<Item(<<"x">>)>>)), Some(<<>>)}
          /\ templateFile = None
    /\ initialFile = noteFile
    /\ added = <<>>
    /\ last = NoCall
    /\ listed = <<>>
    /\ probe = NoProbe

\* note texts of the template runs: a plain one and one that spells the
\* note placeholder
TemplateContents == { <<"a">>, Bare(T_note) }

AddTemplateNote == AddNoteOf(TemplateContents)

NextTemplate == AddTemplateNote \/ ListNotes

SpecTemplate == InitTemplate /\ [][NextTemplate]_vars

(***************************************************************************)
(* Claims.                                                                 *)
(***************************************************************************)
SameCategoryRun(c) == \A i \in 1..Len(added) : added[i][2] = c

\* the last call was list_notes(category) after k >= 1 add_note calls, all for
\* that category, on a note file that did not exist at first
ListedAfterAdds ==
    /\ last.op = "list"
    /\ initialFile = None
    /\ IsNone(config.template_file)
    /\ Len(added) >= 1
    /\ SameCategoryRun(last.category)

\* the content texts that list_notes filters out of a table by its header
\* heuristic: those that contain a header label or the word "Note"
IsLabelFree(content) ==
    /\ ~Contains(content, get_table_headers(config)[1])
    /\ ~Contains(content, get_table_headers(config)[2])
    /\ ~Contains(content, <<"N", "o", "t", "e">>)

\* C1: starting from an absent note file, after k >= 1 successful add_note
\* calls for one category, list_notes for that category returns exactly k
\* lines and the i-th line contains the content of the i-th call (Bullet or
\* Table, with or without a section header).  Stated for the content texts
\* that hold no header label and not the word "Note".
C1_ListReturnsEveryAddedNote ==
    (ListedAfterAdds /\ \A i \in 1..Len(added) : IsLabelFree(added[i][1])) =>
        /\ Len(listed) = Len(added)
        /\ \A i \in 1..Len(added) : Contains(listed[i], added[i][1])

\* a table data row "| <time> | <content> |": a table line that is neither the
\* separator row nor the header row of the configured labels
IsTableDataRow(line) ==
    /\ StartsWith(Trim(line), <<"|">>)
    /\ ~StartsWith(Trim(line), <<"|", "-", "-", "-">>)
    /\ Trim(line) # TableHeaderLine(config)

\* a bullet data row "- <time> <content>"
IsBulletDataRow(line) == StartsWith(Trim(line), <<"-", " ">>)

IsDataRow(line) ==
    IF note_format_of(config) = Table THEN IsTableDataRow(line) ELSE IsBulletDataRow(line)

RECURSIVE IsSubsequence(_, _)
\* the lines of a occur in b as whole lines, in the same order
IsSubsequence(a, b) ==
    IF Len(a) = 0 THEN TRUE
    ELSE IF Len(b) = 0 THEN FALSE
    ELSE IF a[1] = b[1] THEN IsSubsequence(Tail(a), Tail(b))
    ELSE IsSubsequence(a, Tail(b))

\* the last call was add_note on an existing file
AddedToExisting == last.op = "add" /\ last.ok /\ IsSome(last.pre)

\* C2: when the existing file's detected representation equals the configured
\* one, add_note leaves every previously written data row byte-identical, a
\* complete line of its own, in the same relative order.
C2_ExistingRowsUntouched ==
    (/\ AddedToExisting
     /\ detect_note_format(Unwrap(last.pre)) = Some(note_format_of(config)))
    => IsSubsequence(SelectSeq(Lines(Unwrap(last.pre)), IsDataRow),
                     Lines(Unwrap(noteFile)))

\* a blank line stands between two table data rows of the text
BlankBetweenRows(text) ==
    LET lines == Lines(text) IN
    \E i, j \in 1..Len(lines) :
        /\ i + 1 < j
        /\ IsTableDataRow(lines[i])
        /\ IsTableDataRow(lines[j])
        /\ \A k \in (i + 1)..(j - 1) : IsBlank(lines[k])

\* C3: with Table configured, from any starting file, the file written by each
\* add_note has no blank line between two table data rows.
C3_NoBlankLineBetweenRows ==
    (last.op = "add" /\ last.ok /\ note_format_of(config) = Table)
    => ~BlankBetweenRows(Unwrap(noteFile))

\* the section header that applied to the last call
LastSection == get_section_header(config, last.category)

\* the heading lines of a text that contain the header of the last call
SectionHeadings(lines) ==
    {i \in 1..Len(lines) :
        StartsWith(Trim(lines[i]), <<"#">>) /\ Contains(lines[i], Unwrap(LastSection))}

\* the index of the first heading line behind line h, Len(lines) + 1 without one
NextHeading(lines, h) ==
    LET later == {i \in (h + 1)..Len(lines) : StartsWith(Trim(lines[i]), <<"#">>)}
    IN  IF later = {} THEN Len(lines) + 1 ELSE SetMin(later)

\* the rendered entry of the last add_note, as a line
LastEntryLine ==
    IF note_format_of(config) = Bullet
        THEN <<"-", " ">> \o format_datetime(Stamp(noteDate, last.time))
                 \o <<" ">> \o last.content
        ELSE <<"|", " ">> \o format_datetime(Stamp(noteDate, last.time))
                 \o <<" ", "|", " ">> \o last.content \o <<" ", "|">>

\* the existing text of the last add_note, brought into the configured representation
LastConverted ==
    convert_note_format_if_needed(config, Unwrap(last.pre), note_format_of(config))

\* the last call was add_note with a section header, on a file that has the section
AddedToSection ==
    /\ AddedToExisting
    /\ IsSome(LastSection)
    /\ SectionHeadings(Lines(Unwrap(last.pre))) # {}

SectionMissing ==
    /\ IsSome(last.pre)
    /\ IsSome(LastSection)
    /\ SectionHeadings(Lines(Unwrap(last.pre))) = {}

\* C6: with a section header that no heading line of the existing file contains,
\* add_note succeeds and appends one blank line, the heading line and the entry
\* directly behind it, keeping all earlier content; list_notes returns nothing.
C6_MissingSectionCreatedAtEnd ==
    /\ (last.op = "add" /\ SectionMissing) =>
           /\ last.ok
           /\ Lines(Unwrap(noteFile)) =
                  Lines(LastConverted)
                      \o << <<>>, <<"#", " ">> \o Unwrap(LastSection), LastEntryLine >>
    /\ (last.op = "list" /\ SectionMissing) => listed = <<>>

\* the last call was list_notes with a section header, on a file that has the section
ListedInSection ==
    /\ last.op = "list"
    /\ IsSome(noteFile)
    /\ IsSome(LastSection)
    /\ SectionHeadings(Lines(Unwrap(noteFile))) # {}

\* the lines from the first heading of the section up to the next heading
SectionRange ==
    LET lines == Lines(Unwrap(noteFile))
        h == SetMin(SectionHeadings(lines))
    IN  SubSeq(lines, h, NextHeading(lines, h) - 1)

IsAnyDataRow(line) == IsBulletDataRow(line) \/ IsTableDataRow(line)

\* a table row that holds neither configured header label nor the word "Note"
IsLabelFreeRow(line) ==
    /\ StartsWith(Trim(line), <<"|">>)
    /\ ~StartsWith(Trim(line), <<"|", "-", "-", "-">>)
    /\ IsLabelFree(Trim(line))

IsBulletOrLabelFreeRow(line) == IsBulletDataRow(line) \/ IsLabelFreeRow(line)

OwnHeader(cfg, category) ==
    IF category = Some(<<"w", "o", "r", "k">>) THEN cfg.section_header_work
    ELSE IF category = Some(<<"p", "e", "r", "s", "o", "n", "a", "l">>)
        THEN cfg.section_header_personal
    ELSE IF category = Some(<<"h", "e", "a", "l", "t", "h">>) THEN cfg.section_header_health
    ELSE IF category = Some(<<"m", "e", "e", "t", "i", "n", "g", "s">>)
        THEN cfg.section_header_meetings
    ELSE None

\* C8: get_section_header(category) is the category's own header when that is
\* set, and in every other case the vault's default section header (none only
\* when neither is configured).
C8_OwnHeaderElseDefault ==
    probe.stage = "done" =>
        probe.result = IF IsSome(OwnHeader(config, probe.category))
                          THEN OwnHeader(config, probe.category)
                          ELSE config.section_header

\* the <<time, content>> of a bullet line "- <time> <content>"
EntryOfBulletLine(line) ==
    LET rest == SubSeq(line, 3, Len(line))
        sp == Find(rest, <<" ">>)
    IN  IF sp = 0 THEN <<rest, <<>>>>
        ELSE <<SubSeq(rest, 1, sp - 1), SubSeq(rest, sp + 1, Len(rest))>>

\* the <<time, content>> pairs of the bullet lines of a text, in order
BulletPairs(text) ==
    LET rows == SelectSeq(Lines(text), IsBulletDataRow)
    IN  [i \in 1..Len(rows) |-> EntryOfBulletLine(rows[i])]

\* the <<time, content>> pairs that the text was rendered from
ProbePairs ==
    [i \in 1..Len(probe.entries) |->
        <<format_datetime(Stamp([y |-> 2025, m |-> 10, d |-> 24], probe.entries[i][1])),
          probe.entries[i][2]>>]

\* a content text of letters and inner spaces only
IsPlainContent(content) ==
    /\ ~Contains(content, <<"|">>)
    /\ Trim(content) = content
    /\ content # <<>>

\* C4: converting a file of N bullet entries to Table and back to Bullet yields
\* the same ordered sequence of (time, content) pairs, for all N >= 0 and for
\* every configured locale or custom header labels.  Stated for the content
\* texts without "|" and without outer white space.
C4_RoundTripKeepsPairs ==
    (/\ probe.stage = "roundtrip"
     /\ \A i \in 1..Len(probe.entries) : IsPlainContent(probe.entries[i][2]))
    => BulletPairs(probe.text) = ProbePairs

\* the last call created the note file from the template
CreatedFromTemplate ==
    /\ last.op = "add"
    /\ last.ok
    /\ IsNone(last.pre)
    /\ IsSome(config.template_file)
    /\ IsSome(templateFile)

LastStamp == Stamp(noteDate, last.time)

\* the value of each token at the last call; section_header has one only when
\* the default section header is configured
TokenValue(name) ==
    IF name = T_date THEN format_date(noteDate)
    ELSE IF name = T_time THEN format_time(LastStamp)
    ELSE IF name = T_datetime THEN format_datetime(LastStamp)
    ELSE IF name = T_created THEN format_date(noteDate) \o <<" ">> \o format_datetime(LastStamp)
    ELSE IF name = T_today THEN format_date(noteDate)
    ELSE IF name = T_yesterday THEN format_date(PrevDay(noteDate))
    ELSE IF name = T_tomorrow THEN format_date(NextDay(noteDate))
    ELSE IF name = T_weekday THEN WeekdayFull(noteDate)
    ELSE IF name = T_Weekday THEN WeekdayAbbrev(noteDate)
    ELSE Unwrap(config.section_header)

ValuedTokens ==
    IF IsSome(config.section_header) THEN TokenNames ELSE TokenNames \ {T_section_header}

RECURSIVE RenderTokens(_, _)
\* the text from position i on with every token occurrence, doubled or bare,
\* replaced as a whole by the token's value
RenderTokens(text, i) ==
    IF i > Len(text) THEN <<>>
    ELSE IF \E tok \in ValuedTokens : MatchAt(text, i, Doubled(tok))
        THEN LET tok == CHOOSE n \in ValuedTokens : MatchAt(text, i, Doubled(n))
             IN  TokenValue(tok) \o RenderTokens(text, i + Len(Doubled(tok)))
    ELSE IF \E tok \in ValuedTokens : MatchAt(text, i, Bare(tok))
        THEN LET tok == CHOOSE n \in ValuedTokens : MatchAt(text, i, Bare(n))
             IN  TokenValue(tok) \o RenderTokens(text, i + Len(Bare(tok)))
    ELSE <<text[i]>> \o RenderTokens(text, i + 1)

\* C9: when a file is created from a template, every occurrence of each token
\* (date, time, datetime, created, today, yesterday, tomorrow, weekday, Weekday,
\* section_header), bare or doubled, is replaced as a whole by its value.
\* Stated on the templates without a note placeholder, where the entry follows
\* the substituted text.
C9_EveryTokenReplacedInBothForms ==
    (CreatedFromTemplate /\ ~Contains(Unwrap(templateFile), Bare(T_note)))
    => Unwrap(noteFile) = RenderTokens(Unwrap(templateFile), 1) \o LastEntryLine \o <<NL>>

RECURSIVE RenderNote(_, _, _)
\* the text from position i on with every note placeholder, doubled or bare,
\* replaced as a whole by the entry
RenderNote(text, i, entry) ==
    IF i > Len(text) THEN <<>>
    ELSE IF MatchAt(text, i, Doubled(T_note))
        THEN entry \o RenderNote(text, i + Len(Doubled(T_note)), entry)
    ELSE IF MatchAt(text, i, Bare(T_note))
        THEN entry \o RenderNote(text, i + Len(Bare(T_note)), entry)
    ELSE <<text[i]>> \o RenderNote(text, i + 1, entry)

\* C10: when a file is created from a template and the substituted template
\* text contains {note} or {{note}}, the rendered entry stands at the
\* placeholder's position and the placeholder is gone; otherwise the rendered
\* entry is the final text of the file, behind the whole substituted template.
C10_NoteAtPlaceholderElseAppended ==
    CreatedFromTemplate =>
        LET substituted == SubstituteTemplate(config, Unwrap(templateFile), LastStamp)
            entry == LastEntryLine \o <<NL>>
        IN  IF \/ Contains(substituted, Doubled(T_note))
               \/ Contains(substituted, Bare(T_note))
                THEN Unwrap(noteFile) = RenderNote(substituted, 1, entry)
                ELSE Unwrap(noteFile) = substituted \o entry

\* C11: when the note file does not exist and the configured template cannot
\* be read, add_note returns an Io error whose message contains the template
\* path and there is still no note file; when the note file exists, add_note
\* succeeds whether or not the template can be read.
C11_UnreadableTemplateFailsOnlyOnCreation ==
    (last.op = "add" /\ IsSome(config.template_file)) =>
        IF IsNone(last.pre) /\ IsNone(templateFile)
            THEN /\ ~last.ok
                 /\ IsSome(last.err)
                 /\ Unwrap(last.err).kind = "Io"
                 /\ Contains(Unwrap(last.err).message, Unwrap(config.template_file))
                 /\ IsNone(noteFile)
            ELSE /\ last.ok
                 /\ IsSome(noteFile)

\* C11 witness: a creation failed on the unreadable template and left no file
C11_Witness ==
    /\ last.op = "add"
    /\ IsNone(last.pre)
    /\ IsNone(templateFile)
    /\ ~last.ok
    /\ IsNone(noteFile)

\* the phrases of the map, and the map as a set of entries
PhraseKeys == { config.phrases[i][1] : i \in 1..Len(config.phrases) }
PhraseSet == { config.phrases[i] : i \in 1..Len(config.phrases) }

\* some phrase of the map is a proper substring of a longer phrase of the map
HasNestedPhrases ==
    \E p, q \in PhraseKeys : Len(p) < Len(q) /\ Contains(q, p)

Longest(S) == CHOOSE e \in S : \A f \in S : Len(f[1]) <= Len(e[1])

RECURSIVE MarkFrom(_, _, _, _)
\* one pass over a text of [c, done] cells: each match of phrase from among
\* the cells not yet done becomes the cells of to, marked done
MarkFrom(cells, i, from, to) ==
    IF i > Len(cells) THEN <<>>
    ELSE IF /\ i + Len(from) - 1 <= Len(cells)
            /\ \A k \in 1..Len(from) :
                   ~cells[i + k - 1].done /\ cells[i + k - 1].c = from[k]
        THEN [k \in 1..Len(to) |-> [c |-> to[k], done |-> TRUE]]
                 \o MarkFrom(cells, i + Len(from), from, to)
        ELSE <<cells[i]>> \o MarkFrom(cells, i + 1, from, to)

RECURSIVE ExpandOnce(_, _)
\* every phrase, longest first, replaced where it stands in the note content;
\* an expansion that was put in is final
ExpandOnce(S, cells) ==
    IF S = {} THEN [k \in 1..Len(cells) |-> cells[k].c]
    ELSE ExpandOnce(S \ {Longest(S)}, MarkFrom(cells, 1, Longest(S)[1], Longest(S)[2]))

RECURSIVE ExpandInPasses(_, _)
\* every phrase, longest first, replaced in one pass over the whole text as
\* the earlier passes left it
ExpandInPasses(S, text) ==
    IF S = {} THEN text
    ELSE ExpandInPasses(S \ {Longest(S)}, Replace(text, Longest(S)[1], Longest(S)[2]))

Decimal(n) == IF n < 10 THEN <<Digit(n)>> ELSE <<Digit(n \div 10), Digit(n % 10)>>

\* a name with its first letter in lower case
LowerFirst(name) == <<LowerCase[CHOOSE k \in 1..26 : UpperCase[k] = name[1]]>> \o Tail(name)

\* the documented path tokens with their values on a date
PathTokenValues(date) ==
    LET weekday == WeekdayFull(date)
        month == MonthNames[date.m]
    IN  {
          <<<<"{", "y", "e", "a", "r", "}">>, Pad4(date.y)>>,
          <<<<"{", "m", "o", "n", "t", "h", ":", "0", "2", "}">>, Pad2(date.m)>>,
          <<<<"{", "m", "o", "n", "t", "h", "}">>, Decimal(date.m)>>,
          <<<<"{", "{", "d", "a", "t", "e", ":", "M", "M", "}", "}">>, Pad2(date.m)>>,
          <<<<"{", "d", "a", "t", "e", ":", "M", "M", "}">>, Pad2(date.m)>>,
          <<<<"{", "{", "d", "a", "t", "e", ":", "y", "}", "}">>, Pad2(date.y % 100)>>,
          <<<<"{", "d", "a", "t", "e", ":", "y", "}">>, Pad2(date.y % 100)>>,
          <<<<"{", "d", "a", "y", ":", "0", "2", "}">>, Pad2(date.d)>>,
          <<<<"{", "d", "a", "t", "e", ":", "0", "2", "}">>, Pad2(date.d)>>,
          <<<<"{", "d", "a", "y", "}">>, Decimal(date.d)>>,
          <<<<"{", "d", "a", "t", "e", "}">>, Decimal(date.d)>>,
          <<<<"{", "W", "e", "e", "k", "d", "a", "y", "}">>, weekday>>,
          <<<<"{", "w", "e", "e", "k", "d", "a", "y", "}">>, LowerFirst(weekday)>>,
          <<<<"{", "W", "e", "e", "k", "d", "a", "y", "_", "s", "h", "o", "r", "t", "}">>, SubSeq(weekday, 1, 3)>>,
          <<<<"{", "w", "e", "e", "k", "d", "a", "y", "_", "s", "h", "o", "r", "t", "}">>, LowerFirst(SubSeq(weekday, 1, 3))>>,
          <<<<"{", "M", "o", "n", "t", "h", "}">>, month>>,
          <<<<"{", "m", "o", "n", "t", "h", "_", "n", "a", "m", "e", "}">>, LowerFirst(month)>>,
          <<<<"{", "M", "o", "n", "t", "h", "_", "s", "h", "o", "r", "t", "}">>, SubSeq(month, 1, 3)>>,
          <<<<"{", "m", "o", "n", "t", "h", "_", "s", "h", "o", "r", "t", "}">>, LowerFirst(SubSeq(month, 1, 3))>> }

\* the value of a documented path token on a date
PathTokenValue(tok, date) == (CHOOSE e \in PathTokenValues(date) : e[1] = tok)[2]

RECURSIVE RenderPath(_, _, _)
\* the format from position i on with every documented token occurrence
\* replaced by its value and all other text verbatim
RenderPath(format, i, date) ==
    IF i > Len(format) THEN <<>>
    ELSE IF \E tok \in PathTokens : MatchAt(format, i, tok)
        THEN LET tok == CHOOSE x \in PathTokens :
                            /\ MatchAt(format, i, x)
                            /\ \A z \in PathTokens : MatchAt(format, i, z) => Len(z) <= Len(x)
             IN  PathTokenValue(tok, date) \o RenderPath(format, i + Len(tok), date)
    ELSE <<format[i]>> \o RenderPath(format, i + 1, date)

\* the path that the documentation describes
DocumentedPath ==
    IF IsSome(config.file_path_format)
        THEN config.path \o <<"/">> \o RenderPath(Unwrap(config.file_path_format), 1, probe.date)
        ELSE config.path \o <<"/">> \o Pad4(probe.date.y) \o <<"-">> \o Pad2(probe.date.m)
                 \o <<"-">> \o Pad2(probe.date.d) \o <<".", "m", "d">>

SpellsNoToken ==
    IsSome(config.file_path_format) =>
        \A tok \in PathTokens :
            ~Contains(RenderPath(Unwrap(config.file_path_format), 1, probe.date), tok)

CreatedByDefault ==
    /\ last.op = "add"
    /\ last.ok
    /\ IsNone(last.pre)
    /\ IsNone(config.template_file)

\* the labels of the header row: the configured ones, else those of the locale
ExpectedLabels ==
    IF IsSome(config.table_headers)
        THEN <<Unwrap(config.table_headers).time, Unwrap(config.table_headers).content>>
    ELSE IF StartsWith(config.locale, <<"n", "o">>)
        THEN << <<"T", "i", "d">>, <<"I", "n", "n", "h", "o", "l", "d">> >>
    ELSE << <<"T", "i", "m", "e">>, <<"C", "o", "n", "t", "e", "n", "t">> >>

AcceptingDateFormats ==
    LET formats == LocaleDateFormats(config.locale)
    IN  {i \in 1..Len(formats) : IsSome(NaiveDate_parse_from_str(probe.input, formats[i]))}

ParsedDateWithoutOverride == probe.stage = "date parsed" /\ IsNone(probe.override)

\* C15: without a format override, parse_date returns the parse given by the
\* first pattern of the locale's ordered list that accepts the input; an ISO
\* date parses as ISO under every locale; "01/02/2025" is 2025-01-02 under an
\* "en" locale and 2025-02-01 under a "no", "nb" or "nn" locale; an input that
\* no pattern accepts yields an error and no date.
C15_FirstAcceptingPatternWins ==
    ParsedDateWithoutOverride =>
        LET r == probe.result
            formats == LocaleDateFormats(config.locale)
        IN  /\ IF AcceptingDateFormats # {}
                   THEN /\ r.ok
                        /\ r.value = NaiveDate_parse_from_str(
                                         probe.input, formats[SetMin(AcceptingDateFormats)])
                   ELSE /\ ~r.ok
                        /\ IsNone(r.value)
                        /\ IsSome(r.err)
            /\ IsSome(NaiveDate_parse_from_str(probe.input, F_iso))
                   => r.value = NaiveDate_parse_from_str(probe.input, F_iso)
            /\ probe.input = <<"0", "1", "/", "0", "2", "/", "2", "0", "2", "5">> =>
                   /\ SubSeq(config.locale, 1, 2) = <<"e", "n">>
                          => r.value = Some([y |-> 2025, m |-> 1, d |-> 2])
                   /\ SubSeq(config.locale, 1, 2) \in {<<"n", "o">>, <<"n", "b">>, <<"n", "n">>}
                          => r.value = Some([y |-> 2025, m |-> 2, d |-> 1])

\* C15 witness: "01/02/2025" was parsed under a Norwegian locale, where the
\* second pattern of the list is the first to accept it
C15_Witness ==
    /\ ParsedDateWithoutOverride
    /\ probe.input = <<"0", "1", "/", "0", "2", "/", "2", "0", "2", "5">>
    /\ config.locale = <<"n", "b", "-", "N", "O">>
    /\ SetMin(AcceptingDateFormats) = 3
    /\ probe.result.value = Some([y |-> 2025, m |-> 2, d |-> 1])

\* the error of the probe names the input and the override
ErrorNamesInputAndOverride ==
    /\ ~probe.result.ok
    /\ IsNone(probe.result.value)
    /\ IsSome(probe.result.err)
    /\ Contains(Unwrap(probe.result.err).message, probe.input)
    /\ Contains(Unwrap(probe.result.err).message, Unwrap(probe.override))

\* the pattern of a date override: that of the named alias, else the override
\* itself
PatternOfDateOverride(ov) ==
    IF ov = <<"Y", "Y", "Y", "Y", "-", "M", "M", "-", "D", "D">> THEN <<"%", "Y", "-", "%", "m", "-", "%", "d">>
    ELSE IF ov = <<"D", "D", "/", "M", "M", "/", "Y", "Y", "Y", "Y">> THEN <<"%", "d", "/", "%", "m", "/", "%", "Y">>
    ELSE ov

\* the time patterns that accept the input of the probe under its override
AcceptingTimeFormats ==
    LET formats == IF Unwrap(probe.override) = T_12h THEN Formats12h ELSE Formats24h
    IN  {i \in 1..Len(formats) : IsSome(NaiveTime_parse_from_str(probe.input, formats[i]))}

\* C16: with a format override, parse_date and parse_time try only the
\* override's patterns: the result is a function of input and override alone
\* (the same under every locale), and an input that the override's patterns
\* reject yields an error naming the input and the override, whether or not a
\* pattern of the locale accepts it.
C16_OverrideDisablesLocale ==
    /\ (probe.stage = "date parsed" /\ IsSome(probe.override)) =>
           LET date == NaiveDate_parse_from_str(
                           probe.input, PatternOfDateOverride(Unwrap(probe.override)))
           IN  IF IsSome(date)
                   THEN probe.result.ok /\ probe.result.value = date
                   ELSE ErrorNamesInputAndOverride
    /\ (probe.stage = "time parsed" /\ IsSome(probe.override)
            /\ Unwrap(probe.override) \in {T_12h, T_24h}) =>
           LET formats == IF Unwrap(probe.override) = T_12h THEN Formats12h ELSE Formats24h
           IN  IF AcceptingTimeFormats # {}
                   THEN /\ probe.result.ok
                        /\ probe.result.value =
                               NaiveTime_parse_from_str(probe.input,
                                                        formats[SetMin(AcceptingTimeFormats)])
                   ELSE ErrorNamesInputAndOverride
    /\ (probe.stage = "time parsed" /\ IsSome(probe.override)
            /\ Unwrap(probe.override) \notin {T_12h, T_24h}) =>
           \* an override that selects neither pattern set is rejected itself
           /\ ~probe.result.ok
           /\ IsNone(probe.result.value)
           /\ Contains(Unwrap(probe.result.err).message, Unwrap(probe.override))

\* C16 witness: "01/02/2025" was rejected under the override "YYYY-MM-DD" although
\* a pattern of the English locale accepts it
C16_Witness ==
    /\ probe.stage = "date parsed"
    /\ probe.override = Some(<<"Y", "Y", "Y", "Y", "-", "M", "M", "-", "D", "D">>)
    /\ probe.input = <<"0", "1", "/", "0", "2", "/", "2", "0", "2", "5">>
    /\ config.locale = <<"e", "n", "-", "U", "S">>
    /\ IsSome(FirstDate(probe.input, LocaleDateFormats(config.locale), 1))
    /\ ~probe.result.ok

RECURSIVE DaysBefore(_, _)
\* the date k days before date, day by day (k days after it for a negative k)
DaysBefore(date, k) ==
    IF k = 0 THEN date
    ELSE IF k > 0 THEN DaysBefore(PrevDay(date), k - 1)
    ELSE DaysBefore(NextDay(date), k + 1)

\* C17: parse_relative_date(k) is the current local date minus k days: 0 gives
\* today, 1 yesterday, -1 tomorrow; and for two calls on the same local date,
\* parse_relative_date(a) is exactly (b - a) days after parse_relative_date(b).
C17_RelativeDateIsTodayMinusOffset ==
    probe.stage = "called" =>
        /\ \A i \in 1..Len(probe.calls) :
               LET c == probe.calls[i] IN
               /\ c.date = DaysBefore(c.now, c.days_ago)
               /\ c.days_ago = 0 => c.date = c.now
               /\ c.days_ago = 1 => c.date = PrevDay(c.now)
               /\ c.days_ago = -1 => c.date = NextDay(c.now)
        /\ (Len(probe.calls) = 2 /\ probe.calls[1].now = probe.calls[2].now) =>
               probe.calls[1].date =
                   DaysBefore(probe.calls[2].date,
                              probe.calls[1].days_ago - probe.calls[2].days_ago)

\* C17 witness: on 2024-03-01 the offsets 1 and -3 gave 2024-02-29 and
\* 2024-03-04
C17_Witness ==
    /\ probe.stage = "called"
    /\ Len(probe.calls) = 2
    /\ probe.calls[1] = [days_ago |-> 1, now |-> [y |-> 2024, m |-> 3, d |-> 1],
                         date |-> [y |-> 2024, m |-> 2, d |-> 29]]
    /\ probe.calls[2] = [days_ago |-> -3, now |-> [y |-> 2024, m |-> 3, d |-> 1],
                         date |-> [y |-> 2024, m |-> 3, d |-> 4]]

\* the representation that is detected in the note file
DetectedIn(file) == IF IsNone(file) THEN <<"no file">> ELSE detect_note_format(Unwrap(file))

\* C18: list_notes never writes: in a list_notes step the note file, and so its
\* detected representation, is the same before and after, and no file is
\* created when none exists; the file changes only in add_note steps.
C18_ListNotesNeverWrites ==
    [][ /\ last'.op = "list" =>
               /\ noteFile' = noteFile
               /\ DetectedIn(noteFile') = DetectedIn(noteFile)
               /\ IsNone(noteFile) => IsNone(noteFile')
        /\ noteFile' # noteFile => last'.op = "add" ]_vars

\* C18 witness: notes of a Table file were listed and the file is the one that
\* the call found
C18_Witness ==
    /\ last.op = "list"
    /\ IsSome(noteFile)
    /\ last.pre = noteFile
    /\ DetectedIn(noteFile) = Some(Table)
    /\ Len(listed) > 0

\* the names of the vaults of a Config
NamesIn(cfg) == { v.name : v \in cfg.vaults }

\* C19: after any sequence of add_vault, set_default_vault, remove_vault,
\* clear_default_vault and unset_default_vault, default_vault is unset or names
\* a vault of the registry; set_default_vault on an unknown name returns an error
\* and leaves the Config unchanged; remove_vault of the current default clears
\* the default.
C19_DefaultVaultIsRegistered ==
    /\ IsSome(probe.cfg.default_vault) => Unwrap(probe.cfg.default_vault) \in NamesIn(probe.cfg)
    /\ (probe.op = "set_default_vault" /\ probe.arg \notin NamesIn(probe.pre)) =>
           /\ ~probe.ok
           /\ IsSome(probe.err)
           /\ probe.cfg = probe.pre
    /\ (probe.op = "remove_vault" /\ probe.pre.default_vault = Some(probe.arg)) =>
           /\ probe.ok
           /\ probe.arg \notin NamesIn(probe.cfg)
           /\ IsNone(probe.cfg.default_vault)

\* C19 witness: the default vault was removed while another vault stays
C19_Witness ==
    /\ probe.op = "remove_vault"
    /\ probe.pre.default_vault = Some(probe.arg)
    /\ probe.ok
    /\ probe.cfg.vaults # {}
    /\ IsNone(probe.cfg.default_vault)

\* line k of lines is a blank line in a run of blank lines that has a table
\* data row on either side
IsBlankBetweenRows(lines, k) ==
    /\ IsBlank(lines[k])
    /\ \E i \in 1..(k - 1), j \in (k + 1)..Len(lines) :
           /\ IsTableDataRow(lines[i])
           /\ IsTableDataRow(lines[j])
           /\ \A x \in (i + 1)..(j - 1) : IsBlank(lines[x])

RECURSIVE WithoutBlanksBetweenRows(_, _)
\* the lines from the k-th on without the blank lines between two data rows
WithoutBlanksBetweenRows(lines, k) ==
    IF k > Len(lines) THEN <<>>
    ELSE (IF IsBlankBetweenRows(lines, k) THEN <<>> ELSE <<lines[k]>>)
             \o WithoutBlanksBetweenRows(lines, k + 1)

\* C20: clean_table_blank_lines deletes exactly the blank lines that lie
\* between two table data rows and nothing else: blank lines before the table
\* or after its last row and every non-blank line are kept in order, and no
\* blank line is left between two data rows however many there were.
C20_CleanupDeletesOnlyBlanksBetweenRows ==
    probe.stage = "cleaned" =>
        \* the lines of the result, its last line taken as ended
        LET cleaned == Lines(probe.text \o <<NL>>) IN
        /\ cleaned = WithoutBlanksBetweenRows(Lines(probe.input), 1)
        /\ ~BlankBetweenRows(probe.text)

\* the positions of the lines of a text that are equal to a given line
PositionsOf(text, line) == {i \in 1..Len(Lines(text)) : Lines(text)[i] = line}

\* C21: for every configured pair of table header labels, conversion to Table
\* puts the header row and the separator row exactly once, directly in front
\* of the first converted row, and conversion to Bullet removes every header
\* row and separator row and turns no header row into a bullet entry (the
\* result has one bullet line per entry and nothing else).
C21_HeaderRowsInsertedOnceAndRemoved ==
    /\ (probe.stage = "table" /\ Len(probe.entries) > 0) =>
          /\ PositionsOf(probe.text, TableHeaderLine(config)) = {1}
          /\ PositionsOf(probe.text, TableSeparatorLine) = {2}
          /\ Len(Lines(probe.text)) = Len(probe.entries) + 2
    /\ (probe.stage = "roundtrip" /\ Len(probe.entries) > 0) =>
          /\ PositionsOf(probe.text, TableHeaderLine(config)) = {}
          /\ PositionsOf(probe.text, TableSeparatorLine) = {}
          /\ \A i \in 1..Len(Lines(probe.text)) : IsBulletShape(Lines(probe.text)[i])
          /\ Len(Lines(probe.text)) = Len(probe.entries)

(***************************************************************************)
(* add_note on note files of no definite representation: both shapes, or   *)
(* neither.                                                                *)
(***************************************************************************)
UndeterminedFiles ==
    { Text(<<Item("x"), Row("y")>>),
      Text(<<Row("x"), Item("y")>>),
      Text(<<Row("x"), <<>>, Item("y"), <<>>>>),
      Join(TableHead \o <<Row("x"), <<>>, Row("y"), <<>>, Item("z")>>, <<NL>>),
      Text(<<(<<"#", " ", "N">>), Item("x"), <<>>, (<<"#", " ", "W">>), Row("y")>>),
      Text(<<(<<"#", " ", "N">>), <<>>, <<"t">>>>) }

InitUndetermined ==
    /\ config \in Configs
    /\ noteDate = [y |-> 2025, m |-> 10, d |-> 24]
    /\ noteFile \in {Some(f) : f \in UndeterminedFiles}
    /\ templateFile = None
    /\ initialFile = noteFile
    /\ added = <<>>
    /\ last = NoCall
    /\ listed = <<>>
    /\ probe = NoProbe

AddToUndetermined == AddNoteOf({<<"a">>})

NextUndetermined == AddToUndetermined

SpecUndetermined == InitUndetermined /\ [][NextUndetermined]_vars

\* the shape of a line: bullet-shaped, table-shaped, or neither
ShapeOf(line) ==
    IF StartsWith(Trim(line), <<"-", " ">>) THEN "bullet"
    ELSE IF StartsWith(Trim(line), <<"|">>) /\ ~StartsWith(Trim(line), <<"|", "-", "-", "-">>)
        THEN "table"
    ELSE "other"

\* the shapes of the bullet-shaped and table-shaped lines of a text, in order
Shapes(text) ==
    SelectSeq([i \in 1..Len(Lines(text)) |-> ShapeOf(Lines(text)[i])],
              LAMBDA x : x # "other")

\* a text that holds both shapes
HoldsBothShapes(text) ==
    /\ \E i \in 1..Len(Shapes(text)) : Shapes(text)[i] = "bullet"
    /\ \E i \in 1..Len(Shapes(text)) : Shapes(text)[i] = "table"

\* C22: when add_note runs on an existing file classified Undetermined, every
\* existing bullet-shaped line is still bullet-shaped and every existing
\* table-shaped line is still table-shaped in the written file, in the same
\* order and with at most the entry's line added; and a file that held both
\* shapes before the first call is Undetermined after every add_note, under
\* either configured representation.
C22_UndeterminedFileIsNotConverted ==
    /\ (AddedToExisting /\ IsNone(detect_note_format(Unwrap(last.pre)))) =>
          /\ IsSubsequence(Shapes(Unwrap(last.pre)), Shapes(Unwrap(noteFile)))
          /\ Len(Shapes(Unwrap(noteFile))) <= Len(Shapes(Unwrap(last.pre))) + 1
    /\ (IsSome(initialFile) /\ HoldsBothShapes(Unwrap(initialFile))) =>
          /\ IsNone(detect_note_format(Unwrap(noteFile)))
          /\ HoldsBothShapes(Unwrap(noteFile))

\* C22 witness: two notes were added under Table to a file that held a bullet
\* line and a table line, and the file is still Undetermined
C22_Witness ==
    /\ Len(added) = 2
    /\ last.op = "add"
    /\ note_format_of(config) = Table
    /\ IsSome(initialFile)
    /\ HoldsBothShapes(Unwrap(initialFile))
    /\ IsNone(detect_note_format(Unwrap(noteFile)))

(***************************************************************************)
(* Vault::detect_note_format applied on its own to texts of a few lines.   *)
(***************************************************************************)
MaxDetectLines == 3

\* a bullet line, an indented one, a dash without a space, a table row, an
\* indented one, a lone bar, a separator row, a bar inside free text, a
\* heading, a blank line
DetectLines ==
    { Item("x"), <<" ", " ", "-", " ", "x">>, <<"-", "x">>,
      Row("y"), <<" ", "|", " ", "y", " ", "|">>, <<"|">>,
      TableSeparatorLine, <<"t", " ", "|", " ", "-", " ", "u">>,
      <<"#", " ", "N">>, <<>> }

DetectLineLists == UNION { [1..n -> DetectLines] : n \in 0..MaxDetectLines }

InitDetect ==
    /\ config = BaseConfig
    /\ NoFileState
    /\ \E lines \in DetectLineLists :
           probe = [stage |-> "text", lines |-> lines, text |-> Join(lines, <<NL>>),
                    format |-> None]

\* vault.detect_note_format(text)
DetectNoteFormat ==
    /\ probe.stage = "text"
    /\ probe' = [probe EXCEPT !.stage = "detected",
                              !.format = detect_note_format(probe.text)]
    /\ UNCHANGED <<config, noteDate, noteFile, templateFile, initialFile, added, last, listed>>

NextDetect == DetectNoteFormat

SpecDetect == InitDetect /\ [][NextDetect]_vars

\* some line of the probed text has the shape
SomeLineIs(shape) == \E i \in 1..Len(probe.lines) : ShapeOf(probe.lines[i]) = shape

\* C23: detect_note_format returns Bullet exactly when at least one line starts
\* (after trimming) with "- " and no line is table-shaped (starts with "|" and
\* not with "|---"), Table exactly when at least one line is table-shaped and
\* none starts with "- ", and Undetermined in the two remaining cases.
C23_DetectionByLineShapes ==
    probe.stage = "detected" =>
        /\ probe.format \in {Some(Bullet), Some(Table), None}
        /\ probe.format = Some(Bullet) <=> (SomeLineIs("bullet") /\ ~SomeLineIs("table"))
        /\ probe.format = Some(Table) <=> (SomeLineIs("table") /\ ~SomeLineIs("bullet"))
        /\ probe.format = None <=> (SomeLineIs("bullet") <=> SomeLineIs("table"))

\* C23 witness: bullet lines with a separator row between them are Bullet
C23_Witness ==
    /\ probe.stage = "detected"
    /\ probe.lines = <<Item("x"), TableSeparatorLine, <<" ", " ", "-", " ", "x">>>>
    /\ probe.format = Some(Bullet)

(***************************************************************************)
(* add_note on note files of a definite representation, with the rows that *)
(* detection accepts: rendered rows, a bullet without a time ("- x"), a    *)
(* lone bar.                                                               *)
(***************************************************************************)
DefiniteFiles ==
    { Text(<<Item("x"), Item("y")>>),
      Text(<<(<<"#", " ", "N">>), <<>>, Item("x"), <<>>, Item("y")>>),
      Text(<<Item("x"), <<"-", " ", "x">>>>),
      Text(TableHead \o <<Row("x"), Row("y")>>),
      Text(<<(<<"#", " ", "N">>), <<>>>> \o TableHead \o <<Row("x")>>),
      Text(TableHead \o <<Row("x"), <<"|">>>>) }

InitDefinite ==
    /\ config \in Configs
    /\ noteDate = [y |-> 2025, m |-> 10, d |-> 24]
    /\ noteFile \in {Some(f) : f \in DefiniteFiles}
    /\ templateFile = None
    /\ initialFile = noteFile
    /\ added = <<>>
    /\ last = NoCall
    /\ listed = <<>>
    /\ probe = NoProbe

AddToDefinite == AddNoteOf({<<"a">>})

NextDefinite == AddToDefinite

SpecDefinite == InitDefinite /\ [][NextDefinite]_vars

\* the shape of the rows of a representation
ShapeOfFormat(format) == IF format = Bullet THEN "bullet" ELSE "table"

\* the last add_note found a file of a definite representation that is not
\* the configured one
AddedToOtherFormat ==
    /\ AddedToExisting
    /\ IsSome(detect_note_format(Unwrap(last.pre)))
    /\ detect_note_format(Unwrap(last.pre)) # Some(note_format_of(config))

\* C24: if the existing file has a definite representation that differs from
\* the configured one, then after add_note the detected representation of the
\* written file is the configured one, and no line is left in the shape of the
\* old representation.
C24_WrittenFileHasConfiguredFormat ==
    AddedToOtherFormat =>
        /\ detect_note_format(Unwrap(noteFile)) = Some(note_format_of(config))
        /\ \A i \in 1..Len(Shapes(Unwrap(noteFile))) :
               Shapes(Unwrap(noteFile))[i] = ShapeOfFormat(note_format_of(config))

(***************************************************************************)
(* Vault::convert_note_format_if_needed applied on its own to documents    *)
(* with headings, free text and blank lines around the data rows.          *)
(***************************************************************************)
MaxFrameLines == 4

FrameKinds == {"row", "blank", "heading", "text"}

\* the line of a kind in a representation
FrameLine(kind, format) ==
    IF kind = "row" THEN (IF format = Bullet THEN Item("x") ELSE Row("x"))
    ELSE IF kind = "blank" THEN <<>>
    ELSE IF kind = "heading" THEN <<"#", " ", "N">>
    ELSE <<"t">>

\* the documents: up to MaxFrameLines lines, at least one of them a data row,
\* the last one not blank
FrameDocuments ==
    { kinds \in UNION { [1..n -> FrameKinds] : n \in 1..MaxFrameLines } :
        /\ \E i \in 1..Len(kinds) : kinds[i] = "row"
        /\ kinds[Len(kinds)] # "blank" }

InitFrame ==
    /\ config = BaseConfig
    /\ NoFileState
    /\ \E kinds \in FrameDocuments, format \in {Bullet, Table} :
           LET lines == [i \in 1..Len(kinds) |-> FrameLine(kinds[i], format)]
           IN  probe = [stage |-> "document", format |-> format, lines |-> lines,
                        text |-> Text(lines)]

\* convert_note_format_if_needed(text, the other representation)
ConvertDocument ==
    /\ probe.stage = "document"
    /\ probe' = [probe EXCEPT
                    !.stage = "converted",
                    !.text = convert_note_format_if_needed(
                                 config, probe.text,
                                 IF probe.format = Bullet THEN Table ELSE Bullet)]
    /\ UNCHANGED <<config, noteDate, noteFile, templateFile, initialFile, added, last, listed>>

NextFrame == ConvertDocument

SpecFrame == InitFrame /\ [][NextFrame]_vars

\* line k is a line of the table or of the bullet list: a data row, a header
\* row or a separator row
IsListLine(line) == StartsWith(Trim(line), <<"-", " ">>) \/ StartsWith(Trim(line), <<"|">>)

\* line k is a blank line that lies between two data rows: the nearest lines
\* that are not blank, above and below, are data rows
LiesBetweenRows(lines, k) ==
    /\ IsBlank(lines[k])
    /\ \E i \in 1..(k - 1) :
          /\ IsListLine(lines[i])
          /\ \A j \in (i + 1)..(k - 1) : IsBlank(lines[j])
    /\ \E i \in (k + 1)..Len(lines) :
          /\ IsListLine(lines[i])
          /\ \A j \in (k + 1)..(i - 1) : IsBlank(lines[j])

RECURSIVE FrameOf(_, _)
\* the lines from the k-th on that conversion has to leave alone
FrameOf(lines, k) ==
    IF k > Len(lines) THEN <<>>
    ELSE IF IsListLine(lines[k]) \/ LiesBetweenRows(lines, k) THEN FrameOf(lines, k + 1)
    ELSE <<lines[k]>> \o FrameOf(lines, k + 1)

\* C25: conversion changes only data rows, header and separator rows and the
\* blank lines between two data rows: every other line of the document is
\* in the converted text, unchanged and in the same order.
C25_ConversionKeepsOtherLines ==
    probe.stage = "converted" =>
        IsSubsequence(FrameOf(probe.lines, 1), Lines(probe.text \o <<NL>>))

\* the data row at line k stands in a well-formed table block: the lines above
\* it are data rows up to a separator row that has the header row in front
InTableBlock(lines, k) ==
    \E s \in 2..(k - 1) :
        /\ Trim(lines[s]) = TableSeparatorLine
        /\ Trim(lines[s - 1]) = TableHeaderLine(config)
        /\ \A j \in (s + 1)..(k - 1) : IsTableDataRow(lines[j])

\* C26: in every file written by add_note with Table configured, each table
\* data row belongs to a well-formed table block: above it there are only data
\* rows up to a separator row directly preceded by a header row, with no
\* blank line between any two of these lines.
C26_RowsStandInTableBlocks ==
    (last.op = "add" /\ last.ok /\ note_format_of(config) = Table) =>
        LET lines == Lines(Unwrap(noteFile)) IN
        \A k \in 1..Len(lines) : IsTableDataRow(lines[k]) => InTableBlock(lines, k)

\* the number of blank lines of a text
BlankLines(text) == Cardinality({i \in 1..Len(Lines(text)) : IsBlank(Lines(text)[i])})

\* the last add_note went into an existing section that another heading
\* follows, in a file that already had the configured representation
AddedBeforeHeading ==
    /\ AddedToSection
    /\ detect_note_format(Unwrap(last.pre)) = Some(note_format_of(config))
    /\ LET old == Lines(Unwrap(last.pre))
       IN  NextHeading(old, SetMin(SectionHeadings(old))) <= Len(old)

\* C27: when the target section exists and another heading follows it,
\* add_note adds exactly one line to the file, the entry, and the number of
\* blank lines of the file does not grow.
C27_SectionInsertAddsOneLine ==
    AddedBeforeHeading =>
        /\ Len(Lines(Unwrap(noteFile))) = Len(Lines(Unwrap(last.pre))) + 1
        /\ BlankLines(Unwrap(noteFile)) <= BlankLines(Unwrap(last.pre))

(***************************************************************************)
(* Vault::expand_phrases in two runs of the program on the same note text  *)
(* and the same phrase map.  The map is a HashMap with the default hasher, *)
(* whose iteration order is chosen anew in every run.                      *)
(***************************************************************************)
\* two phrases of equal length that overlap in "abc", and two of equal length
\* of which one expands to the other
OrderEntries ==
    { <<<<"a", "b">>, <<"X">>>>, <<<<"b", "c">>, <<"Y">>>>,
      <<<<"@", "a">>, <<"@", "b">>>>, <<<<"@", "b">>, <<"c">>>>, <<P_wo, <<"G">>>> }

OrderMaps ==
    { phrases \in UNION { [1..n -> OrderEntries] : n \in 0..MaxPhrases } :
        \A i, j \in 1..Len(phrases) : i # j => phrases[i][1] # phrases[j][1] }

OrderContents ==
    { <<"a", "b", "c">>, <<"@", "a">>, <<"@", "b", " ">> \o P_wo, <<"a", "b", " ", "b", "c">>,
      <<"n", "o">> }

\* the iteration orders of the map that holds the entries of a list
IterationOrders(phrases) ==
    { order \in [1..Len(phrases) -> {phrases[i] : i \in 1..Len(phrases)}] :
        \A i, j \in 1..Len(phrases) : i # j => order[i] # order[j] }

InitOrder ==
    /\ config \in { [BaseConfig EXCEPT !.phrases = phrases] : phrases \in OrderMaps }
    /\ NoFileState
    /\ \E content \in OrderContents :
           probe = [stage |-> "content", content |-> content, first |-> <<>>, second |-> <<>>]

\* a run of the program: the configuration is loaded into a new map and
\* self.expand_phrases(content) is applied
ExpandInFirstRun ==
    /\ probe.stage = "content"
    /\ \E order \in IterationOrders(config.phrases) :
         /\ config' = [config EXCEPT !.phrases = order]
         /\ probe' = [probe EXCEPT !.stage = "first",
                                   !.first = expand_phrases(config', probe.content)]
    /\ UNCHANGED <<noteDate, noteFile, templateFile, initialFile, added, last, listed>>

\* another run of the program on the same content
ExpandInSecondRun ==
    /\ probe.stage = "first"
    /\ \E order \in IterationOrders(config.phrases) :
         /\ config' = [config EXCEPT !.phrases = order]
         /\ probe' = [probe EXCEPT !.stage = "second",
                                   !.second = expand_phrases(config', probe.content)]
    /\ UNCHANGED <<noteDate, noteFile, templateFile, initialFile, added, last, listed>>

NextOrder == ExpandInFirstRun \/ ExpandInSecondRun

SpecOrder == InitOrder /\ [][NextOrder]_vars

\* C28: phrase expansion is deterministic: for every note content and phrase
\* map, also with several phrases of equal length, two runs give the same
\* expanded text, whatever the iteration order of the map in each run.
C28_ExpansionIndependentOfMapOrder ==
    probe.stage = "second" => probe.second = probe.first

(***************************************************************************)
(* App::add_note up to the choice of the note file: the date and the time  *)
(* of the command line are combined and the note file of the timestamp's   *)
(* date is taken.                                                          *)
(***************************************************************************)
Zones == {"UTC", "Europe/Oslo"}

CombineDates ==
    { [y |-> 2025, m |-> 3, d |-> 30], [y |-> 2025, m |-> 10, d |-> 26],
      [y |-> 2025, m |-> 10, d |-> 24], [y |-> 2024, m |-> 2, d |-> 29] }

CombineTimes ==
    { [h |-> 1, mi |-> 59, s |-> 59], [h |-> 2, mi |-> 0, s |-> 0],
      [h |-> 2, mi |-> 30, s |-> 0], [h |-> 3, mi |-> 0, s |-> 0], [h |-> 14, mi |-> 30, s |-> 0] }

\* the instants of the calls, as local date and time
Clocks ==
    { [date |-> [y |-> 2025, m |-> 11, d |-> 2], h |-> 10, mi |-> 0, s |-> 0],
      [date |-> [y |-> 2025, m |-> 10, d |-> 26], h |-> 9, mi |-> 15, s |-> 0] }

InitCombine ==
    /\ config = BaseConfig
    /\ NoFileState
    /\ \E zone \in Zones, now \in Clocks, date \in CombineDates, time \in CombineTimes :
           probe = [stage |-> "arguments", zone |-> zone, now |-> now, date |-> date,
                    time |-> time, timestamp |-> now, path |-> <<>>]

\* vault.date_handler.combine_date_time(date, time), and the note path that
\* Vault::add_note takes for the timestamp
CombineDateTime ==
    /\ probe.stage = "arguments"
    /\ LET timestamp == combine_date_time(probe.zone, probe.now, probe.date, probe.time)
       IN  probe' = [probe EXCEPT !.stage = "combined",
                                  !.timestamp = timestamp,
                                  !.path = get_note_path(config, timestamp.date)]
    /\ UNCHANGED <<config, noteDate, noteFile, templateFile, initialFile, added, last, listed>>

NextCombine == CombineDateTime

SpecCombine == InitCombine /\ [][NextCombine]_vars

\* C29: for every date d and time t, combine_date_time(d, t) is a local
\* timestamp whose date is d and whose time is t, also for the local times
\* that the zone maps to no instant or to two, and the note is filed in the
\* note file of d.
C29_CombinedTimestampHasDateAndTime ==
    probe.stage = "combined" =>
        /\ probe.timestamp.date = probe.date
        /\ probe.timestamp.h = probe.time.h
        /\ probe.timestamp.mi = probe.time.mi
        /\ probe.timestamp.s = probe.time.s
        /\ probe.path = get_note_path(config, probe.date)

(***************************************************************************)
(* Two add_note calls on the same existing note file, in two processes.    *)
(* A call reads the file (fs::read_to_string) and later writes the text    *)
(* that it made of what it read (fs::write); nothing is held in between.   *)
(* probe holds, per process, the text read and the position in the call.   *)
(***************************************************************************)
Procs == {1, 2}

\* the note content of each process
RaceContent(p) == IF p = 1 THEN <<"a">> ELSE <<"b">>

RaceTime == [h |-> 14, mi |-> 30, s |-> 0]

InitRace ==
    /\ config \in Configs
    /\ noteDate = [y |-> 2025, m |-> 10, d |-> 24]
    /\ noteFile \in {Some(f) : f \in ExistingFiles}
    /\ templateFile = None
    /\ initialFile = noteFile
    /\ added = <<>>
    /\ last = NoCall
    /\ listed = <<>>
    /\ probe = [stage |-> "race", pc |-> [p \in Procs |-> "start"],
                read |-> [p \in Procs |-> None], ok |-> [p \in Procs |-> FALSE],
                events |-> <<>>]

\* what process p writes when the file holds the text found: the file of
\* add_note on that text
WrittenBy(p, found) ==
    add_note(config, found, templateFile, RaceContent(p), Stamp(noteDate, RaceTime), None)

\* note_path.exists() and fs::read_to_string(&note_path) of process p
ReadNoteFile(p) ==
    /\ probe.pc[p] = "start"
    /\ probe' = [probe EXCEPT !.pc[p] = "read", !.read[p] = noteFile,
                              !.events = Append(@, <<"read", p>>)]
    /\ UNCHANGED <<config, noteDate, noteFile, templateFile, initialFile, added, last, listed>>

\* a write that makes its text of the file as it is at the time of the write
WriteNoteFileOfCurrent(p) ==
    /\ probe.pc[p] = "read"
    /\ LET r == WrittenBy(p, noteFile)
       IN  /\ noteFile' = r.file
           /\ added' = IF r.ok THEN Append(added, <<RaceContent(p), None>>) ELSE added
           /\ last' = [op |-> "add", ok |-> r.ok, err |-> r.err, content |-> RaceContent(p),
                       category |-> None, time |-> RaceTime, pre |-> noteFile]
           /\ probe' = [probe EXCEPT !.pc[p] = "done", !.ok[p] = r.ok,
                                     !.events = Append(@, <<"write", p>>)]
    /\ UNCHANGED <<config, noteDate, templateFile, initialFile, listed>>

\* the rest of add_note in process p, up to fs::write(&note_path, ..) and Ok(())
WriteNoteFile(p) ==
    /\ probe.pc[p] = "read"
    /\ LET r == WrittenBy(p, probe.read[p])
       IN  /\ noteFile' = r.file
           /\ added' = IF r.ok THEN Append(added, <<RaceContent(p), None>>) ELSE added
           /\ last' = [op |-> "add", ok |-> r.ok, err |-> r.err, content |-> RaceContent(p),
                       category |-> None, time |-> RaceTime, pre |-> probe.read[p]]
           /\ probe' = [probe EXCEPT !.pc[p] = "done", !.ok[p] = r.ok,
                                     !.events = Append(@, <<"write", p>>)]
    /\ UNCHANGED <<config, noteDate, templateFile, initialFile, listed>>

NextRace == (\E p \in Procs : ReadNoteFile(p)) \/ (\E p \in Procs : WriteNoteFile(p))

SpecRace == InitRace /\ [][NextRace]_vars

\* the rendered entry of process p, without its newline
RaceEntry(p) ==
    LET entry == format_note_entry(format_datetime(Stamp(noteDate, RaceTime)),
                                   RaceContent(p), note_format_of(config))
    IN  SubSeq(entry, 1, Len(entry) - 1)

\* both calls have returned
BothDone == probe.stage = "race" /\ \A p \in Procs : probe.pc[p] = "done"

\* both calls read before either wrote
Interleaved == BothDone /\ probe.events[1][1] = "read" /\ probe.events[2][1] = "read"

\* one call returned before the other read
OneAfterTheOther == BothDone /\ probe.events[2][1] = "write"

\* the process of the last write, and the other one
LastWriter == probe.events[4][2]
FirstWriter == probe.events[3][2]

\* C30: when two add_note calls on the same existing file interleave (both
\* read before either writes), both return success and the final file is the
\* one written last, made of the file as it was at the start, without the
\* entry of the other call; when the calls run one after the other, the final
\* file holds both entries.
C30_LastWriterWins ==
    /\ Interleaved =>
          /\ \A p \in Procs : probe.ok[p]
          /\ noteFile = WrittenBy(LastWriter, initialFile).file
          /\ Contains(Unwrap(noteFile), RaceEntry(LastWriter))
          /\ ~Contains(Unwrap(noteFile), RaceEntry(FirstWriter))
    /\ OneAfterTheOther =>
          /\ \A p \in Procs : probe.ok[p]
          /\ \A p \in Procs : Contains(Unwrap(noteFile), RaceEntry(p))

\* C30 witness: process 2 read, process 1 read and wrote, process 2 wrote, and
\* the entry of process 1 is not in the file
C30_Witness ==
    /\ Interleaved
    /\ probe.events = << <<"read", 2>>, <<"read", 1>>, <<"write", 1>>, <<"write", 2>> >>
    /\ ~Contains(Unwrap(noteFile), RaceEntry(1))
    /\ Contains(Unwrap(noteFile), RaceEntry(2))
====
